---- MODULE Spec2Model ----
(***************************************************************************)
(* The self-organizing knowledge tree (Knowledge.find / Knowledge.update   *)
(* with split and merge), the in-memory node store and the tool-call-only  *)
(* agent (Agent.respond) it issues its oracle rounds through.              *)
(***************************************************************************)
EXTENDS Integers, Sequences, FiniteSets, TLC

(* ------------------------------ bounds -------------------------------- *)

\* highest id the model lets generateId hand out
MaxId == 3
\* most tool calls the oracle puts in one response
MaxCalls == 2
\* most partitions the oracle passes to splitDocument
MaxParts == 3
\* largest maxRetries a retryAll strategy is configured with
MaxRetries == 1

(* ------------------------- program constants -------------------------- *)

ROOT_DOC_ID == 0

\* the values maxDocumentSizeChars (KnowledgeConfig) is configured with, small
\* here: the longer content of Texts exceeds the one and equals the other
MaxDocumentSizes == {5, 6}

\* the configured k (KnowledgeConfig), the number of documents the split
\* prompt asks for
k == 2

\* the runs explored: ids up to MaxId and up to MaxParts partitions with one
\* tool call less than MaxCalls per response, or MaxCalls tool calls per
\* response with one id and one partition less
Limits ==
  {[ids |-> MaxId, calls |-> MaxCalls - 1, parts |-> MaxParts],
   [ids |-> MaxId - 1, calls |-> MaxCalls, parts |-> MaxParts - 1]}

\* the limits of the run, one of Limits
VARIABLE limits

\* JavaScript's undefined, as the value of an absent parentId
undefined == 0 - 2

\* the texts the oracle writes: a document content (of length 1 or 6) with
\* the short description it gives of it
Texts ==
  {[content |-> "a", short |-> "s1"], [content |-> "bbbbbb", short |-> "s2"]}

Contents == {t.content : t \in Texts}

\* the callers' natural-language queries
Queries == {"q1", "q2"}

(* ------------------------------- nodes -------------------------------- *)

Document(id, content, parentId) ==
  [id |-> id, kind |-> "d", content |-> content, parentId |-> parentId]

Heading(id, refs, parentId) ==
  [id |-> id, kind |-> "h", refs |-> refs, parentId |-> parentId]

Empty(id) == [id |-> id, kind |-> "e"]

\* a JavaScript truthiness test of an optional number
Truthy(n) == n # undefined /\ n # 0

(* ------------------------ InMemoryKnowledgeStorage -------------------- *)

\* the storage record of a freshly constructed InMemoryKnowledgeStorage
EmptyStorage == [i \in {} |-> Empty(i)]

Get(s, id) == IF id \in DOMAIN s THEN s[id] ELSE Empty(id)

\* set that leaves the store alone when it is passed an Empty node
SetIgnoringEmpty(s, doc) ==
  IF doc.kind = "e"
    THEN s
    ELSE (doc.id :> doc) @@ s

Set(s, doc) ==
  IF doc.kind = "e"
    THEN [i \in (DOMAIN s) \ {doc.id} |-> s[i]]
    ELSE (doc.id :> doc) @@ s

GetMany(s, ids) == [i \in 1 .. Len(ids) |-> Get(s, ids[i])]

RECURSIVE SetMany(_, _)
SetMany(s, docs) ==
  IF docs = << >> THEN s ELSE SetMany(Set(s, Head(docs)), Tail(docs))

\* generateId that does not advance the counter
GenerateIdRepeating(counter) == [id |-> counter, next |-> counter]

\* generateId: the id returned and the counter after the call
GenerateId(counter) == [id |-> counter, next |-> counter + 1]

\* n successive generateId calls: the ids returned, in order, and the counter
RECURSIVE GenerateIds(_, _)
GenerateIds(counter, n) ==
  IF n = 0
    THEN [ids |-> << >>, next |-> counter]
    ELSE LET g == GenerateId(counter)
             r == GenerateIds(g.next, n - 1)
         IN  [ids |-> <<g.id>> \o r.ids, next |-> r.next]

(* ------------------------ values of tool arguments -------------------- *)

\* the tools find and update provide, and test, the tool of a caller that
\* uses Agent.respond directly
ToolNames ==
  {"selectDocument", "createRoot", "updateDocument", "splitDocument",
   "mergeDocuments", "test"}

\* the arguments test's schema z.object({test: z.string()}) accepts; its
\* handler throws on "fail"
TestArgs == {[test |-> "fail"], [test |-> "world"]}

Partitions ==
  {[content |-> t.content, shortDescription |-> t.short] : t \in Texts}

PartitionLists == UNION {[1 .. n -> Partitions] : n \in 0 .. limits.parts}

\* the numbers the oracle passes to selectDocument when it is shown heading:
\* -1, the id of one of the refs, or an id nothing is stored under (counter,
\* the id generateId would hand out next)
SelectAnswers(heading, counter) ==
  {0 - 1, counter} \cup {heading.refs[i].id : i \in 1 .. Len(heading.refs)}

\* the values each tool's zod schema accepts, as far as the oracle uses them;
\* answers are the numbers it passes to selectDocument
ValidArgs(tool, answers) ==
  CASE tool = "selectDocument" -> answers
    [] tool = "createRoot" -> {[content |-> c] : c \in Contents}
    [] tool = "updateDocument" ->
         {[newDocument |-> t.content, shortUpdateDescription |-> t.short] :
            t \in Texts}
    [] tool = "splitDocument" -> PartitionLists
    [] tool = "mergeDocuments" ->
         {[content |-> t.content, shortDescription |-> t.short] : t \in Texts}
    [] tool = "test" -> TestArgs

\* the argument text of a tool call: whether JSON.parse accepts it, whether
\* the parsed value conforms to the tool's schema, and the value a conforming
\* text parses to
WellFormed(value) == [wellFormed |-> TRUE, conforms |-> TRUE, value |-> value]
MalformedJson(value) == [wellFormed |-> FALSE, conforms |-> FALSE, value |-> value]
SchemaMismatch(value) == [wellFormed |-> TRUE, conforms |-> FALSE, value |-> value]

FunctionCall(name, arguments) ==
  [type |-> "function", name |-> name, arguments |-> arguments]

CustomCall(name, arguments) ==
  [type |-> "custom", name |-> name, arguments |-> arguments]

\* the tool calls the oracle can put in a response to a round providing tool
ToolCalls(tool, answers) ==
  LET any == CHOOSE value \in ValidArgs(tool, answers) : TRUE
  IN  {FunctionCall(tool, WellFormed(value)) : value \in ValidArgs(tool, answers)}
        \cup {FunctionCall(tool, MalformedJson(any)),
              FunctionCall(tool, SchemaMismatch(any)),
              FunctionCall("unknownTool", WellFormed(any)),
              CustomCall(tool, WellFormed(any))}

\* the oracle's responses: no choices, a message without tool_calls, or a
\* message with a list of tool calls
NoChoices == [choices |-> 0, hasToolCalls |-> FALSE, toolCalls |-> << >>]
NoToolCalls == [choices |-> 1, hasToolCalls |-> FALSE, toolCalls |-> << >>]
WithToolCalls(calls) == [choices |-> 1, hasToolCalls |-> TRUE, toolCalls |-> calls]

ToolCallLists(tool, answers, most) ==
  UNION {[1 .. n -> ToolCalls(tool, answers)] : n \in 0 .. most}

(* ------------------------------- state -------------------------------- *)

VARIABLES
  storage,                 \* InMemoryKnowledgeStorage.storage
  idCounter,               \* InMemoryKnowledgeStorage.id
  resolutionStrategy,      \* AgentConfig.resolutionStrategy
  pc,                      \* where the running find / update call stands
  op,                      \* the running call: "find", "update" or "none"
  docId,                   \* the local docId of find and _findLeaf
  parentHeading,           \* _findLeaf's parent / update's parentHeading
  docToUpdate,             \* update's docToUpdate
  shortUpdateDescription,  \* update's shortUpdateDescription
  result,                  \* what the call returned or raised
  rnd,                     \* the Agent.respond call in progress or last made
  issued,                  \* tools the call has issued an oracle round for
  pre,                     \* storage and id counter when the call began
  last,                    \* per tool, the argument its handler last ran with
  io,                      \* ids the last step passed to storage.get / getMany
  spy,                     \* what the mock client of a direct caller recorded
  caller,                  \* what a direct caller of the store has observed
  prior,                   \* what the update a find call follows has done
  hops,                    \* the routing rounds of a find call that is watched
  procs,                   \* the update calls that run concurrently
  maxDocumentSizeChars     \* KnowledgeConfig.maxDocumentSizeChars

vars ==
  <<storage, idCounter, resolutionStrategy, pc, op, docId, parentHeading,
    docToUpdate, shortUpdateDescription, result, rnd, issued, pre, last, io,
    spy, caller, prior, hops, procs, maxDocumentSizeChars, limits>>

\* the strategies an Agent can be configured with; "none" is no strategy
Strategies ==
  {[kind |-> kind, maxRetries |-> 0] : kind \in {"none", "ignore", "throw"}}
    \cup {[kind |-> "retryAll", maxRetries |-> n] : n \in 0 .. MaxRetries}

NoResult == [kind |-> "none", doc |-> << >>, text |-> ""]
Returned(text) == [kind |-> "string", doc |-> << >>, text |-> text]
ReturnedDocument(node) == [kind |-> "document", doc |-> <<node>>, text |-> ""]
ReturnedUndefined == [kind |-> "undefined", doc |-> << >>, text |-> ""]
Raised(text) == [kind |-> "error", doc |-> << >>, text |-> text]

NoRound ==
  [tool |-> "none", answers |-> {}, cont |-> "idle", status |-> "none",
   requests |-> 0,
   retrying |-> FALSE, retryCount |-> 0, pending |-> 0, ncalls |-> 0,
   errors |-> FALSE, fired |-> 0]

\* the tools whose handlers' runs are recorded: all but selectDocument,
\* whose handler only assigns docId
WritingTools == ToolNames \ {"selectDocument"}

NoneFired == [t \in WritingTools |-> << >>]

Resting == {"idle", "done", "raised"}

\* the record of a mock client that has not been asked yet: how many requests
\* it answered, how many of its responses carried a verification error, how
\* many of the tool calls it returned named the provided tool, how many of
\* them with arguments that parse and conform, its last response, and per
\* tool call of that response what became of it
NoSpy ==
  [attempts |-> 0, failed |-> 0, named |-> 0, valid |-> 0,
   response |-> NoChoices, log |-> << >>]

\* the record of a caller that has not called the store directly yet: the
\* ids generateId returned to it, in order, per id the node it last passed to
\* set, and what its last get returned, if no set followed
NoCaller ==
  [generated |-> << >>, written |-> [i \in {} |-> Empty(i)], got |-> << >>]

\* a watched find call that has issued no routing round: how many it has
\* issued, and whether the handler ran in each one that returned
NoHops == [rounds |-> 0, routed |-> TRUE]

\* no update calls run concurrently
NoProcs == << >>

(* ----------------------- the engine's tool handlers ------------------- *)
(* A handler works on h = [storage, id, docId, shortUpdateDescription],    *)
(* the part of the state the closures of find / update can write.          *)

\* selectDocument that takes an id from the store's counter
selectDocumentAllocating(h, arg) ==
  [h EXCEPT !.docId = arg, !.id = GenerateId(@).next]

\* a selectDocument that leaves docId as it was
selectDocumentStaying(h, arg) == h

\* find / _findLeaf: selectDocument
selectDocument(h, arg) == [h EXCEPT !.docId = arg]

\* update, bootstrap: createRoot
createRoot(h, arg) ==
  [h EXCEPT !.storage = Set(@, Document(ROOT_DOC_ID, arg.content, undefined))]

\* updateDocument that stores the document but not the description
updateDocumentSilent(h, arg, doc) ==
  [h EXCEPT !.storage = Set(@, [doc EXCEPT !.content = arg.newDocument])]

\* updateDocument that appends the new text to the document's content
updateDocumentAppending(h, arg, doc) ==
  [h EXCEPT !.shortUpdateDescription = arg.shortUpdateDescription,
            !.storage = Set(@, [doc EXCEPT !.content = @ \o arg.newDocument])]

\* update, edit: updateDocument
updateDocument(h, arg, doc) ==
  [h EXCEPT !.shortUpdateDescription = arg.shortUpdateDescription,
            !.storage = Set(@, [doc EXCEPT !.content = arg.newDocument])]

\* splitDocument that gives the new documents the parentId of the document
\* it splits
splitDocumentMisparented(h, arg, doc) ==
  LET n == Len(arg)
      gen == GenerateIds(h.id, n)
      newDocRefs ==
        [i \in 1 .. n |->
           [id |-> gen.ids[i], short |-> arg[i].shortDescription]]
      newDocs ==
        [i \in 1 .. n |-> Document(gen.ids[i], arg[i].content, doc.parentId)]
      newHeading == Heading(doc.id, newDocRefs, doc.parentId)
  IN  [h EXCEPT !.id = gen.next,
                !.storage = SetMany(@, Append(newDocs, newHeading))]

\* splitDocument that stores the new Heading without the new documents
splitDocumentHeadingOnly(h, arg, doc) ==
  LET n == Len(arg)
      gen == GenerateIds(h.id, n)
      newDocRefs ==
        [i \in 1 .. n |->
           [id |-> gen.ids[i], short |-> arg[i].shortDescription]]
      newHeading == Heading(doc.id, newDocRefs, doc.parentId)
  IN  [h EXCEPT !.id = gen.next,
                !.storage = Set(@, newHeading)]

\* splitDocument that pairs the partitions' descriptions with the ids in
\* reverse order
splitDocumentReversed(h, arg, doc) ==
  LET n == Len(arg)
      gen == GenerateIds(h.id, n)
      newDocRefs ==
        [i \in 1 .. n |->
           [id |-> gen.ids[i], short |-> arg[n + 1 - i].shortDescription]]
      newDocs ==
        [i \in 1 .. n |-> Document(gen.ids[i], arg[i].content, doc.id)]
      newHeading == Heading(doc.id, newDocRefs, doc.parentId)
  IN  [h EXCEPT !.id = gen.next,
                !.storage = SetMany(@, Append(newDocs, newHeading))]

\* splitDocument that stores every partition under the first id it generated
splitDocumentOneId(h, arg, doc) ==
  LET n == Len(arg)
      gen == GenerateIds(h.id, n)
      newDocRefs ==
        [i \in 1 .. n |-> [id |-> gen.ids[1], short |-> arg[i].shortDescription]]
      newDocs ==
        [i \in 1 .. n |-> Document(gen.ids[1], arg[i].content, doc.id)]
      newHeading == Heading(doc.id, newDocRefs, doc.parentId)
  IN  [h EXCEPT !.id = gen.next,
                !.storage = SetMany(@, Append(newDocs, newHeading))]

\* docsToSet with the new Heading pushed before the new documents
docsToSetHeadingFirst(h, arg, doc) ==
  LET n == Len(arg)
      gen == GenerateIds(h.id, n)
      newDocRefs ==
        [i \in 1 .. n |-> [id |-> gen.ids[i], short |-> arg[i].shortDescription]]
      newDocs ==
        [i \in 1 .. n |-> Document(gen.ids[i], arg[i].content, doc.id)]
      newHeading == Heading(doc.id, newDocRefs, doc.parentId)
  IN  <<newHeading>> \o newDocs

\* the list the split handler passes to setMany: the new documents in the
\* oracle's order, then the new Heading
docsToSet(h, arg, doc) ==
  LET n == Len(arg)
      gen == GenerateIds(h.id, n)
      newDocRefs ==
        [i \in 1 .. n |-> [id |-> gen.ids[i], short |-> arg[i].shortDescription]]
      newDocs ==
        [i \in 1 .. n |-> Document(gen.ids[i], arg[i].content, doc.id)]
      newHeading == Heading(doc.id, newDocRefs, doc.parentId)
  IN  Append(newDocs, newHeading)

\* update, split: splitDocument
splitDocument(h, arg, doc) ==
  [h EXCEPT !.id = GenerateIds(h.id, Len(arg)).next,
            !.storage = SetMany(@, docsToSet(h, arg, doc))]

\* mergeDocuments that stores the merged document without a parentId
mergeDocumentsUnparented(h, arg, parent) ==
  [h EXCEPT !.storage = Set(@, Document(parent.id, arg.content, undefined))]

\* mergeDocuments that also deletes the children of the collapsed Heading
mergeDocumentsCascading(h, arg, parent) ==
  LET newDoc == Document(parent.id, arg.content, parent.parentId)
      gone == [i \in 1 .. Len(parent.refs) |-> Empty(parent.refs[i].id)]
  IN  [h EXCEPT !.storage = SetMany(@, Append(gone, newDoc))]

\* mergeDocuments that deletes the collapsed Heading instead of replacing it
mergeDocumentsDeleting(h, arg, parent) ==
  [h EXCEPT !.storage = Set(@, Empty(parent.id))]

\* update, merge: mergeDocuments
mergeDocuments(h, arg, parent) ==
  LET newDoc == Document(parent.id, arg.content, parent.parentId)
      s1 == Set(h.storage, newDoc)
      grandParent == Get(s1, parent.parentId)
      newRefs ==
        [i \in 1 .. Len(grandParent.refs) |->
           IF grandParent.refs[i].id = parent.id
             THEN [grandParent.refs[i] EXCEPT !.short = arg.shortDescription]
             ELSE grandParent.refs[i]]
  IN  IF Truthy(parent.parentId) /\ grandParent.kind = "h"
        THEN [h EXCEPT !.storage = Set(s1, [grandParent EXCEPT !.refs = newRefs])]
        ELSE [h EXCEPT !.storage = s1]

\* the user handler of the one tool a round provides; doc and parent are the
\* docToUpdate and parentHeading its closure captured
Handler(tool, h, arg, doc, parent) ==
  CASE tool = "selectDocument" -> selectDocument(h, arg)
    [] tool = "createRoot" -> createRoot(h, arg)
    [] tool = "updateDocument" -> updateDocument(h, arg, doc)
    [] tool = "splitDocument" -> splitDocument(h, arg, doc)
    [] tool = "mergeDocuments" -> mergeDocuments(h, arg, parent)
    [] tool = "test" -> h

\* whether the user handler throws: only test's does, on "fail", before it
\* has done anything
Throws(tool, arg) == tool = "test" /\ arg.test = "fail"

(* ------------------------------ the agent ----------------------------- *)

\* the ids a user handler passes to storage.get
HandlerReads(tool, parent) ==
  IF tool = "mergeDocuments" /\ Truthy(parent.parentId)
    THEN {parent.parentId}
    ELSE {}

\* _transformTool's handler without the schema test
TransformedHandlerUnchecked(tool, h, arguments, doc, parent) ==
  IF ~arguments.wellFormed
    THEN [h |-> h, error |-> TRUE, ran |-> FALSE, threw |-> FALSE]
    ELSE IF Throws(tool, arguments.value)
      THEN [h |-> h, error |-> TRUE, ran |-> TRUE, threw |-> TRUE]
      ELSE [h |-> Handler(tool, h, arguments.value, doc, parent),
            error |-> FALSE, ran |-> TRUE, threw |-> FALSE]

\* _transformTool's handler on one call of the provided tool: the handler
\* state after it, whether it returned an error string, whether the user
\* handler ran, whether the user handler threw
TransformedHandler(tool, h, arguments, doc, parent) ==
  IF ~arguments.wellFormed
    THEN [h |-> h, error |-> TRUE, ran |-> FALSE, threw |-> FALSE]
    ELSE IF ~arguments.conforms
      THEN [h |-> h, error |-> TRUE, ran |-> FALSE, threw |-> FALSE]
      ELSE IF Throws(tool, arguments.value)
        THEN [h |-> h, error |-> TRUE, ran |-> TRUE, threw |-> TRUE]
        ELSE [h |-> Handler(tool, h, arguments.value, doc, parent),
              error |-> FALSE, ran |-> TRUE, threw |-> FALSE]

\* the loop body of _verifyAndCallHandlers handing a call of an unknown tool
\* to the handler of the provided one
VerifyToolCallAnyName(tool, h, toolCall, doc, parent) ==
  IF toolCall.type # "function"
    THEN [h |-> h, error |-> TRUE, ran |-> FALSE, threw |-> FALSE]
    ELSE TransformedHandler(tool, h, toolCall.arguments, doc, parent)

\* one turn of the loop of _verifyAndCallHandlers over the response's calls
VerifyToolCall(tool, h, toolCall, doc, parent) ==
  IF toolCall.type # "function"
    THEN [h |-> h, error |-> TRUE, ran |-> FALSE, threw |-> FALSE]
    ELSE IF toolCall.name # tool
      THEN [h |-> h, error |-> TRUE, ran |-> FALSE, threw |-> FALSE]
      ELSE TransformedHandler(tool, h, toolCall.arguments, doc, parent)

\* the loop of _verifyAndCallHandlers; acc carries the handler state, whether
\* results holds an error, how often the user handler ran, the argument and
\* id counter of its last run, the ids the handlers read, and per tool call
\* what became of it
RECURSIVE CallHandlers(_, _, _, _, _)
CallHandlers(tool, acc, toolCalls, doc, parent) ==
  IF toolCalls = << >>
    THEN acc
    ELSE LET Next1(v) ==
               [h |-> v.h,
                errors |-> acc.errors \/ v.error,
                fired |-> IF v.ran THEN acc.fired + 1 ELSE acc.fired,
                ranWith |-> IF v.ran
                              THEN <<[arg |-> Head(toolCalls).arguments.value,
                                      id |-> acc.h.id]>>
                              ELSE acc.ranWith,
                reads |-> IF v.ran
                            THEN acc.reads \cup HandlerReads(tool, parent)
                            ELSE acc.reads,
                log |-> Append(acc.log,
                               [ran |-> v.ran, error |-> v.error,
                                threw |-> v.threw])]
             next == CHOOSE n \in
                       {Next1(CHOOSE v \in
                          {VerifyToolCall(tool, acc.h, Head(toolCalls), doc, parent)} :
                          TRUE)} : TRUE
         IN  CallHandlers(tool, next, Tail(toolCalls), doc, parent)

\* the loop of _verifyAndCallHandlers leaving at the first tool call that fails
RECURSIVE CallHandlersStopping(_, _, _, _, _)
CallHandlersStopping(tool, acc, toolCalls, doc, parent) ==
  IF toolCalls = << >> \/ acc.errors
    THEN acc
    ELSE CallHandlersStopping(
           tool, CallHandlers(tool, acc, <<Head(toolCalls)>>, doc, parent),
           Tail(toolCalls), doc, parent)

\* _verifyAndCallHandlers with that loop
VerifyAndCallHandlersStopping(tool, h, response, doc, parent) ==
  LET start == [h |-> h, errors |-> FALSE, fired |-> 0, ranWith |-> << >>,
                reads |-> {}, log |-> << >>]
  IN  IF response.choices = 0
        THEN [start EXCEPT !.errors = TRUE]
        ELSE IF ~response.hasToolCalls
          THEN [start EXCEPT !.errors = TRUE]
          ELSE CallHandlersStopping(tool, start, response.toolCalls, doc, parent)

\* _verifyAndCallHandlers: errors is TRUE when it returns an error string
VerifyAndCallHandlers(tool, h, response, doc, parent) ==
  LET start == [h |-> h, errors |-> FALSE, fired |-> 0, ranWith |-> << >>,
                reads |-> {}, log |-> << >>]
  IN  IF response.choices = 0
        THEN [start EXCEPT !.errors = TRUE]
        ELSE IF ~response.hasToolCalls
          THEN [start EXCEPT !.errors = TRUE]
          ELSE CallHandlers(tool, start, response.toolCalls, doc, parent)

\* Agent.respond that ignores a failed verification under every strategy
ResolveIgnoring(strategy, r, errors) == [r EXCEPT !.status = "returned"]

\* Agent.respond that re-issues the round once under throw
ResolveThrowRetries(strategy, r, errors) ==
  IF ~errors
    THEN [r EXCEPT !.status = "returned"]
    ELSE IF ~r.retrying
      THEN CASE strategy.kind \in {"none", "ignore"} ->
                  [r EXCEPT !.status = "returned"]
             [] strategy.kind \in {"throw", "retryAll"} ->
                  [r EXCEPT !.status = "request", !.retrying = TRUE,
                            !.retryCount = 0]
      ELSE IF strategy.kind = "throw"
        THEN [r EXCEPT !.status = "raised"]
        ELSE IF r.retryCount + 1 <= strategy.maxRetries
          THEN [r EXCEPT !.status = "request", !.retryCount = @ + 1]
          ELSE [r EXCEPT !.status = "retryOver", !.retryCount = @ + 1]

\* Agent.respond that throws when no strategy is configured
ResolveNoneThrows(strategy, r, errors) ==
  IF ~errors
    THEN [r EXCEPT !.status = "returned"]
    ELSE IF ~r.retrying
      THEN CASE strategy.kind = "ignore" ->
                  [r EXCEPT !.status = "returned"]
             [] strategy.kind \in {"none", "throw"} ->
                  [r EXCEPT !.status = "raised"]
             [] strategy.kind = "retryAll" ->
                  [r EXCEPT !.status = "request", !.retrying = TRUE,
                            !.retryCount = 0]
      ELSE IF r.retryCount + 1 <= strategy.maxRetries
        THEN [r EXCEPT !.status = "request", !.retryCount = @ + 1]
        ELSE [r EXCEPT !.status = "retryOver", !.retryCount = @ + 1]

\* Agent.respond whose retry loop does not test the verification for success
ResolveNoLoopReturn(strategy, r, errors) ==
  IF ~errors /\ ~r.retrying
    THEN [r EXCEPT !.status = "returned"]
    ELSE IF ~r.retrying
      THEN CASE strategy.kind \in {"none", "ignore"} ->
                  [r EXCEPT !.status = "returned"]
             [] strategy.kind = "throw" ->
                  [r EXCEPT !.status = "raised"]
             [] strategy.kind = "retryAll" ->
                  [r EXCEPT !.status = "request", !.retrying = TRUE,
                            !.retryCount = 0]
      ELSE IF r.retryCount + 1 <= strategy.maxRetries
        THEN [r EXCEPT !.status = "request", !.retryCount = @ + 1]
        ELSE [r EXCEPT !.status = "retryOver", !.retryCount = @ + 1]

\* Agent.respond after a verification: r is the round, errors tells whether
\* the verification returned an error string
Resolve(strategy, r, errors) ==
  IF ~errors
    THEN [r EXCEPT !.status = "returned"]
    ELSE IF ~r.retrying
      THEN CASE strategy.kind \in {"none", "ignore"} ->
                  [r EXCEPT !.status = "returned"]
             [] strategy.kind = "throw" ->
                  [r EXCEPT !.status = "raised"]
             [] strategy.kind = "retryAll" ->
                  [r EXCEPT !.status = "request", !.retrying = TRUE,
                            !.retryCount = 0]
      ELSE IF r.retryCount + 1 <= strategy.maxRetries
        THEN [r EXCEPT !.status = "request", !.retryCount = @ + 1]
        ELSE [r EXCEPT !.status = "retryOver", !.retryCount = @ + 1]

\* Agent.respond is entered with one tool; answers are the numbers the
\* messages lead the oracle to pass to selectDocument, cont is where the
\* caller goes on
Respond(tool, answers, cont) ==
  /\ pc' = "respond"
  /\ rnd' = [NoRound EXCEPT !.tool = tool, !.answers = answers, !.cont = cont,
                            !.status = "request"]
  /\ issued' = issued \cup {tool}

\* find / update go on at p without an oracle round
Goto(p) ==
  /\ pc' = p
  /\ rnd' = NoRound
  /\ issued' = issued

\* the handler state the running call's closures see
HandlerState ==
  [storage |-> storage, id |-> idCounter, docId |-> docId,
   shortUpdateDescription |-> shortUpdateDescription]

\* the message of the error Agent.respond throws under throw
ErrorsDuring == "Errors during agent response"

\* the message of the error Agent.respond throws when its retries are used up
RetryOver == "[Retry over] Errors during agent response"

\* the model hands out ids up to limits.ids only
WithinIds(h) == h.id <= limits.ids + 1

\* a request after which find / update catch the error respond throws and
\* go on where the round was to return to
RequestCatching(response) ==
  LET doc == IF docToUpdate = << >> THEN Empty(ROOT_DOC_ID) ELSE docToUpdate[1]
      parent == IF parentHeading = << >> THEN Empty(ROOT_DOC_ID) ELSE parentHeading[1]
  IN
  \E v \in {VerifyAndCallHandlers(rnd.tool, HandlerState, response, doc, parent)} :
  \E r \in {Resolve(resolutionStrategy,
                    [rnd EXCEPT !.requests = @ + 1,
                                !.ncalls = Len(response.toolCalls),
                                !.errors = v.errors,
                                !.fired = @ + v.fired],
                    v.errors)} :
      /\ WithinIds(v.h)
      /\ storage' = v.h.storage
      /\ idCounter' = v.h.id
      /\ docId' = v.h.docId
      /\ shortUpdateDescription' = v.h.shortUpdateDescription
      /\ io' = v.reads
      /\ last' = IF v.ranWith # << >> /\ rnd.tool \in WritingTools
                   THEN [last EXCEPT ![rnd.tool] = v.ranWith]
                   ELSE last
      /\ CASE r.status = "returned" ->
                /\ rnd' = r
                /\ pc' = r.cont
                /\ result' = result
           [] r.status = "request" ->
                /\ rnd' = r
                /\ pc' = pc
                /\ result' = result
           [] r.status = "raised" ->
                /\ rnd' = r
                /\ pc' = r.cont
                /\ result' = result
           [] r.status = "retryOver" ->
                /\ rnd' = [r EXCEPT !.status = "raised"]
                /\ pc' = r.cont
                /\ result' = result
      /\ UNCHANGED <<resolutionStrategy, op, parentHeading, docToUpdate, issued,
                     pre>>

\* one oracle request of Agent.respond: _respond returns response, then
\* _verifyAndCallHandlers runs the handlers, then the strategy decides
Request(response) ==
  LET doc == IF docToUpdate = << >> THEN Empty(ROOT_DOC_ID) ELSE docToUpdate[1]
      parent == IF parentHeading = << >> THEN Empty(ROOT_DOC_ID) ELSE parentHeading[1]
  IN
  \E v \in {VerifyAndCallHandlers(rnd.tool, HandlerState, response, doc, parent)} :
  \E r \in {Resolve(resolutionStrategy,
                    [rnd EXCEPT !.requests = @ + 1,
                                !.ncalls = Len(response.toolCalls),
                                !.errors = v.errors,
                                !.fired = @ + v.fired],
                    v.errors)} :
      /\ WithinIds(v.h)
      /\ storage' = v.h.storage
      /\ idCounter' = v.h.id
      /\ docId' = v.h.docId
      /\ shortUpdateDescription' = v.h.shortUpdateDescription
      /\ io' = v.reads
      /\ last' = IF v.ranWith # << >> /\ rnd.tool \in WritingTools
                   THEN [last EXCEPT ![rnd.tool] = v.ranWith]
                   ELSE last
      /\ CASE r.status = "returned" ->
                /\ rnd' = r
                /\ pc' = r.cont
                /\ result' = result
           [] r.status = "request" ->
                /\ rnd' = r
                /\ pc' = pc
                /\ result' = result
           [] r.status = "raised" ->
                /\ rnd' = r
                /\ pc' = "raised"
                /\ result' = Raised(ErrorsDuring)
           [] r.status = "retryOver" ->
                /\ rnd' = [r EXCEPT !.status = "raised"]
                /\ pc' = "raised"
                /\ result' = Raised(RetryOver)
      /\ UNCHANGED <<resolutionStrategy, op, parentHeading, docToUpdate, issued,
                     pre>>

\* the oracle answers the request with no choices
RequestNoChoices ==
  /\ pc = "respond" /\ rnd.status = "request"
  /\ Request(NoChoices)
  /\ UNCHANGED <<spy, caller, prior, hops, procs, maxDocumentSizeChars, limits>>

\* the oracle answers the request with a message that has no tool_calls
RequestNoToolCalls ==
  /\ pc = "respond" /\ rnd.status = "request"
  /\ Request(NoToolCalls)
  /\ UNCHANGED <<spy, caller, prior, hops, procs, maxDocumentSizeChars, limits>>

\* the oracle answers the request with a list of tool calls
RequestToolCalls ==
  /\ pc = "respond" /\ rnd.status = "request"
  /\ \E calls \in ToolCallLists(rnd.tool, rnd.answers, limits.calls) :
       Request(WithToolCalls(calls))
  /\ UNCHANGED <<spy, caller, prior, hops, procs, maxDocumentSizeChars, limits>>

(* --------------------------- Knowledge.find --------------------------- *)

\* find's loop without the test for -1
FindVisitUnguarded(s, id) ==
  LET node == Get(s, id)
  IN  CASE node.kind = "e" ->
             [reads |-> {id}, outcome |-> "undefined", node |-> node]
        [] node.kind = "d" ->
             [reads |-> {id}, outcome |-> "document", node |-> node]
        [] node.kind = "h" ->
             [reads |-> {id}, outcome |-> "route", node |-> node]

\* find's loop returning a copy of the document that lacks its parentId
FindVisitUnparented(s, id) ==
  IF id = 0 - 1
    THEN [reads |-> {}, outcome |-> "undefined", node |-> Empty(id)]
    ELSE LET node == Get(s, id)
         IN  CASE node.kind = "e" ->
                    [reads |-> {id}, outcome |-> "undefined", node |-> node]
               [] node.kind = "d" ->
                    [reads |-> {id}, outcome |-> "document",
                     node |-> Document(node.id, node.content, undefined)]
               [] node.kind = "h" ->
                    [reads |-> {id}, outcome |-> "route", node |-> node]

\* what one turn of find's loop does at docId: the ids it reads from the
\* store, and whether it returns undefined, returns the node or asks the oracle
FindVisit(s, id) ==
  IF id = 0 - 1
    THEN [reads |-> {}, outcome |-> "undefined", node |-> Empty(id)]
    ELSE LET node == Get(s, id)
         IN  CASE node.kind = "e" ->
                    [reads |-> {id}, outcome |-> "undefined", node |-> node]
               [] node.kind = "d" ->
                    [reads |-> {id}, outcome |-> "document", node |-> node]
               [] node.kind = "h" ->
                    [reads |-> {id}, outcome |-> "route", node |-> node]

\* the locals and the bookkeeping of a call that begins
BeginCall(name) ==
  /\ op' = name
  /\ docId' = ROOT_DOC_ID
  /\ parentHeading' = << >>
  /\ docToUpdate' = << >>
  /\ shortUpdateDescription' = ""
  /\ result' = NoResult
  /\ pre' = [storage |-> storage, id |-> idCounter]
  /\ last' = NoneFired

\* what the call that has just ended did, when it is an update that has
\* returned: the kind of node ROOT was when it began, the argument its edit
\* tool last ran with, and the tools it issued rounds for
PriorUpdate ==
  IF pc = "done" /\ op = "update"
    THEN <<[root |-> Get(pre.storage, ROOT_DOC_ID).kind,
            edit |-> last["updateDocument"],
            issued |-> issued]>>
    ELSE << >>

\* find(q) begins
FindBegin ==
  /\ pc \in Resting
  /\ \E q \in Queries :
       /\ BeginCall("find")
       /\ pc' = "find_loop"
       /\ rnd' = NoRound
       /\ issued' = {}
       /\ io' = {}
  /\ prior' = PriorUpdate
  /\ UNCHANGED <<storage, idCounter, resolutionStrategy>>

\* a caller calls find(q)
FindCall ==
  /\ FindBegin
  /\ UNCHANGED <<spy, caller, hops, procs, maxDocumentSizeChars, limits>>

\* what one turn of the while loop of find does to find's locals
FindTurn ==
  /\ pc = "find_loop"
  /\ LET visit == FindVisit(storage, docId)
     IN  /\ io' = visit.reads
         /\ CASE visit.outcome = "undefined" ->
                   /\ result' = ReturnedUndefined
                   /\ Goto("done")
              [] visit.outcome = "document" ->
                   /\ result' = ReturnedDocument(visit.node)
                   /\ Goto("done")
              [] visit.outcome = "route" ->
                   /\ result' = result
                   /\ Respond("selectDocument",
                              SelectAnswers(visit.node, idCounter), "find_loop")
  /\ UNCHANGED <<storage, idCounter, resolutionStrategy, op, docId,
                 parentHeading, docToUpdate, shortUpdateDescription, pre,
                 last>>

\* one turn of the while loop of find
FindLoop ==
  /\ FindTurn
  /\ UNCHANGED <<spy, caller, prior, hops, procs, maxDocumentSizeChars, limits>>

(* -------------------------- Knowledge.update -------------------------- *)

\* a caller calls update(q): the root is read and the path is chosen
UpdateCall ==
  /\ pc \in Resting
  /\ \E q \in Queries :
       /\ BeginCall("update")
       /\ io' = {ROOT_DOC_ID}
       /\ IF Get(storage, ROOT_DOC_ID).kind = "e"
            THEN /\ pc' = "respond"
                 /\ rnd' = [NoRound EXCEPT !.tool = "createRoot",
                                           !.cont = "bootstrap_return",
                                           !.status = "request"]
                 /\ issued' = {"createRoot"}
            ELSE /\ pc' = "findLeaf_loop"
                 /\ rnd' = NoRound
                 /\ issued' = {}
  /\ prior' = << >>
  /\ UNCHANGED <<storage, idCounter, resolutionStrategy>>
  /\ UNCHANGED <<spy, caller, hops, procs, maxDocumentSizeChars, limits>>

\* update going on to _findLeaf after the createRoot round
BootstrapFallsThrough ==
  /\ pc = "bootstrap_return"
  /\ result' = result
  /\ Goto("findLeaf_loop")
  /\ io' = {}
  /\ UNCHANGED <<storage, idCounter, resolutionStrategy, op, docId,
                 parentHeading, docToUpdate, shortUpdateDescription, pre,
                 last>>
  /\ UNCHANGED <<spy, caller, prior, hops, procs, maxDocumentSizeChars, limits>>

\* update returns from the bootstrap path
BootstrapReturn ==
  /\ pc = "bootstrap_return"
  /\ result' = Returned("Initialized the knowledge base")
  /\ Goto("done")
  /\ io' = {}
  /\ UNCHANGED <<storage, idCounter, resolutionStrategy, op, docId,
                 parentHeading, docToUpdate, shortUpdateDescription, pre,
                 last>>
  /\ UNCHANGED <<spy, caller, prior, hops, procs, maxDocumentSizeChars, limits>>

\* the message of the error _findLeaf throws on an Empty node
NonExistent == "The model has selected a non-existent document."

\* _findLeaf's loop taking an Empty node for the leaf
FindLeafVisitLenient(node) ==
  CASE node.kind = "d" -> "leaf"
    [] node.kind = "e" -> "leaf"
    [] node.kind = "h" -> "route"

\* what one turn of _findLeaf's loop does with the node at docId
FindLeafVisit(node) ==
  CASE node.kind = "d" -> "leaf"
    [] node.kind = "e" -> "throw"
    [] node.kind = "h" -> "route"

\* one turn of the while loop of _findLeaf; on a Document, update goes on to
\* its edit round
FindLeafLoop ==
  /\ pc = "findLeaf_loop"
  /\ LET node == Get(storage, docId)
         visit == FindLeafVisit(node)
     IN  /\ io' = {docId}
         /\ CASE visit = "leaf" ->
                   /\ docToUpdate' = <<node>>
                   /\ parentHeading' = parentHeading
                   /\ result' = result
                   /\ Respond("updateDocument", {}, "split_check")
              [] visit = "throw" ->
                   /\ docToUpdate' = docToUpdate
                   /\ parentHeading' = parentHeading
                   /\ result' = Raised(NonExistent)
                   /\ Goto("raised")
              [] visit = "route" ->
                   /\ docToUpdate' = docToUpdate
                   /\ parentHeading' = <<node>>
                   /\ result' = result
                   /\ Respond("selectDocument",
                              SelectAnswers(node, idCounter), "findLeaf_loop")
  /\ UNCHANGED <<storage, idCounter, resolutionStrategy, op, docId,
                 shortUpdateDescription, pre, last>>
  /\ UNCHANGED <<spy, caller, prior, hops, procs, maxDocumentSizeChars, limits>>

\* the split condition taking a document as long as maxDocumentSizeChars
\* for too long
SplitDueInclusive(updatedDoc) ==
  updatedDoc.kind = "d" /\ Len(updatedDoc.content) >= maxDocumentSizeChars

\* the split condition on the re-fetched document
SplitDue(updatedDoc) ==
  updatedDoc.kind = "d" /\ Len(updatedDoc.content) > maxDocumentSizeChars

\* a split check after whose split round update returns without a merge check
SplitCheckReturning ==
  /\ pc = "split_check"
  /\ io' = {docToUpdate[1].id}
  /\ IF SplitDue(Get(storage, docToUpdate[1].id))
       THEN Respond("splitDocument", {}, "update_return")
       ELSE Goto("merge_check")
  /\ UNCHANGED <<storage, idCounter, resolutionStrategy, op, docId,
                 parentHeading, docToUpdate, shortUpdateDescription, result,
                 pre, last>>
  /\ UNCHANGED <<spy, caller, prior, hops, procs, maxDocumentSizeChars, limits>>

\* update after the edit round: the split check
SplitCheck ==
  /\ pc = "split_check"
  /\ io' = {docToUpdate[1].id}
  /\ IF SplitDue(Get(storage, docToUpdate[1].id))
       THEN Respond("splitDocument", {}, "merge_check")
       ELSE Goto("merge_check")
  /\ UNCHANGED <<storage, idCounter, resolutionStrategy, op, docId,
                 parentHeading, docToUpdate, shortUpdateDescription, result,
                 pre, last>>
  /\ UNCHANGED <<spy, caller, prior, hops, procs, maxDocumentSizeChars, limits>>

\* the reduce over the siblings: Documents add their content length
RECURSIVE TotalSize(_)
TotalSize(siblings) ==
  IF siblings = << >>
    THEN 0
    ELSE (IF Head(siblings).kind = "d" THEN Len(Head(siblings).content) ELSE 0)
           + TotalSize(Tail(siblings))

\* the merge condition taking a total of exactly half maxDocumentSizeChars
\* for small
MergeDueInclusive(totalSize) == 2 * totalSize <= maxDocumentSizeChars

\* totalSize < maxDocumentSizeChars / 2, a division of floating-point numbers
MergeDue(totalSize) == 2 * totalSize < maxDocumentSizeChars

RefIds(heading) == [i \in 1 .. Len(heading.refs) |-> heading.refs[i].id]

\* update after the split check: the merge check
MergeCheck ==
  /\ pc = "merge_check"
  /\ IF parentHeading # << >>
       THEN LET ids == RefIds(parentHeading[1])
                siblings == GetMany(storage, ids)
            IN  /\ io' = {ids[i] : i \in 1 .. Len(ids)}
                /\ IF MergeDue(TotalSize(siblings))
                     THEN Respond("mergeDocuments", {}, "update_return")
                     ELSE Goto("update_return")
       ELSE /\ io' = {}
            /\ Goto("update_return")
  /\ UNCHANGED <<storage, idCounter, resolutionStrategy, op, docId,
                 parentHeading, docToUpdate, shortUpdateDescription, result,
                 pre, last>>
  /\ UNCHANGED <<spy, caller, prior, hops, procs, maxDocumentSizeChars, limits>>

\* update returns shortUpdateDescription
UpdateReturn ==
  /\ pc = "update_return"
  /\ result' = Returned(shortUpdateDescription)
  /\ Goto("done")
  /\ io' = {}
  /\ UNCHANGED <<storage, idCounter, resolutionStrategy, op, docId,
                 parentHeading, docToUpdate, shortUpdateDescription, pre,
                 last>>
  /\ UNCHANGED <<spy, caller, prior, hops, procs, maxDocumentSizeChars, limits>>

(* --------------------------- the specification ------------------------ *)

\* a Knowledge over a fresh InMemoryKnowledgeStorage, with any strategy
Init ==
  /\ storage = EmptyStorage
  /\ idCounter = 1
  /\ resolutionStrategy \in Strategies
  /\ pc = "idle"
  /\ op = "none"
  /\ docId = ROOT_DOC_ID
  /\ parentHeading = << >>
  /\ docToUpdate = << >>
  /\ shortUpdateDescription = ""
  /\ result = NoResult
  /\ rnd = NoRound
  /\ issued = {}
  /\ pre = [storage |-> EmptyStorage, id |-> 1]
  /\ last = NoneFired
  /\ io = {}
  /\ spy = NoSpy
  /\ caller = NoCaller
  /\ prior = << >>
  /\ hops = NoHops
  /\ procs = NoProcs
  /\ maxDocumentSizeChars \in MaxDocumentSizes
  /\ limits \in Limits

Next ==
  \/ FindCall
  \/ FindLoop
  \/ UpdateCall
  \/ BootstrapReturn
  \/ FindLeafLoop
  \/ SplitCheck
  \/ MergeCheck
  \/ UpdateReturn
  \/ RequestNoChoices
  \/ RequestNoToolCalls
  \/ RequestToolCalls

Spec == Init /\ [][Next]_vars

(* -------------------- Agent.respond called directly ------------------- *)
(* A caller provides the one tool test and a mock client, as the tests of  *)
(* the agent do.                                                           *)

\* a tool call of type function that names the provided tool
NamesTool(tool, toolCall) ==
  toolCall.type = "function" /\ toolCall.name = tool

\* a tool call whose arguments reach the user handler of the provided tool
ReachesHandler(tool, toolCall) ==
  /\ NamesTool(tool, toolCall)
  /\ toolCall.arguments.wellFormed
  /\ toolCall.arguments.conforms

\* a response for which _verifyAndCallHandlers returns an error string
HasVerificationError(tool, response) ==
  \/ response.choices = 0
  \/ ~response.hasToolCalls
  \/ \E i \in 1 .. Len(response.toolCalls) :
       \/ ~ReachesHandler(tool, response.toolCalls[i])
       \/ Throws(tool, response.toolCalls[i].arguments.value)

\* how many tool calls of response name the provided tool
CountNaming(tool, response) ==
  Cardinality({i \in 1 .. Len(response.toolCalls) :
                 NamesTool(tool, response.toolCalls[i])})

\* how many tool calls of response reach the provided tool's user handler
CountReaching(tool, response) ==
  Cardinality({i \in 1 .. Len(response.toolCalls) :
                 ReachesHandler(tool, response.toolCalls[i])})

\* a caller calls agent.respond({tools: {test}})
RespondCall ==
  /\ pc \in Resting
  /\ BeginCall("respond")
  /\ pc' = "respond"
  /\ rnd' = [NoRound EXCEPT !.tool = "test", !.cont = "done",
                            !.status = "request"]
  /\ issued' = {"test"}
  /\ io' = {}
  /\ spy' = NoSpy
  /\ UNCHANGED <<storage, idCounter, resolutionStrategy, maxDocumentSizeChars,
                 limits, caller, prior, hops, procs>>

\* one oracle request answered by the mock client with response
MockRequest(response) ==
  /\ Request(response)
  /\ spy' =
       [attempts |-> spy.attempts + 1,
        failed |-> IF HasVerificationError(rnd.tool, response)
                     THEN spy.failed + 1
                     ELSE spy.failed,
        named |-> spy.named + CountNaming(rnd.tool, response),
        valid |-> spy.valid + CountReaching(rnd.tool, response),
        response |-> response,
        log |-> VerifyAndCallHandlers(rnd.tool, HandlerState, response,
                                      Empty(ROOT_DOC_ID),
                                      Empty(ROOT_DOC_ID)).log]

MockNoChoices ==
  /\ pc = "respond" /\ rnd.status = "request"
  /\ MockRequest(NoChoices)
  /\ UNCHANGED <<caller, prior, hops, procs, maxDocumentSizeChars, limits>>

MockNoToolCalls ==
  /\ pc = "respond" /\ rnd.status = "request"
  /\ MockRequest(NoToolCalls)
  /\ UNCHANGED <<caller, prior, hops, procs, maxDocumentSizeChars, limits>>

MockToolCalls ==
  /\ pc = "respond" /\ rnd.status = "request"
  /\ \E calls \in ToolCallLists(rnd.tool, rnd.answers, limits.calls) :
       MockRequest(WithToolCalls(calls))
  /\ UNCHANGED <<caller, prior, hops, procs, maxDocumentSizeChars, limits>>

NextAgent ==
  \/ RespondCall
  \/ MockNoChoices
  \/ MockNoToolCalls
  \/ MockToolCalls

SpecAgent == Init /\ [][NextAgent]_vars

(* ------------- InMemoryKnowledgeStorage called directly --------------- *)
(* A caller holds the store and calls set, get and generateId on it, as    *)
(* the tests of the store do.                                              *)

\* the ids the caller passes to set and get
StoreIds == ROOT_DOC_ID .. MaxId - 1

\* the nodes the caller passes to set under id
StoreNodes(id) ==
  {Document(id, c, ROOT_DOC_ID) : c \in Contents}
    \cup {Heading(id, << >>, undefined), Empty(id)}

\* the caller calls storage.set(doc)
StoreSet ==
  /\ \E id \in StoreIds : \E doc \in StoreNodes(id) :
       /\ storage' = Set(storage, doc)
       /\ caller' = [caller EXCEPT !.written = (id :> doc) @@ @,
                                   !.got = << >>]
  /\ UNCHANGED <<idCounter, resolutionStrategy, pc, op, docId, parentHeading,
                 docToUpdate, shortUpdateDescription, result, rnd, issued,
                 pre, last, io, spy, prior, hops, procs, maxDocumentSizeChars,
                 limits>>

\* the caller calls storage.get(id)
StoreGet ==
  /\ \E id \in StoreIds :
       caller' = [caller EXCEPT !.got = <<[id |-> id, node |-> Get(storage, id)]>>]
  /\ UNCHANGED <<storage, idCounter, resolutionStrategy, pc, op, docId,
                 parentHeading, docToUpdate, shortUpdateDescription, result,
                 rnd, issued, pre, last, io, spy, prior, hops, procs,
                 maxDocumentSizeChars, limits>>

\* the caller calls storage.generateId()
StoreGenerateId ==
  /\ idCounter <= MaxId
  /\ LET g == GenerateId(idCounter)
     IN  /\ idCounter' = g.next
         /\ caller' = [caller EXCEPT !.generated = Append(@, g.id)]
  /\ UNCHANGED <<storage, resolutionStrategy, pc, op, docId, parentHeading,
                 docToUpdate, shortUpdateDescription, result, rnd, issued,
                 pre, last, io, spy, prior, hops, procs, maxDocumentSizeChars,
                 limits>>

NextStore ==
  \/ StoreSet
  \/ StoreGet
  \/ StoreGenerateId

SpecStore == Init /\ [][NextStore]_vars

(* ------------------- Knowledge over a populated store ----------------- *)

\* the store of the merge test: a ROOT Heading over two small Documents, put
\* there with set
Populated ==
  SetMany(EmptyStorage,
          <<Heading(ROOT_DOC_ID,
                    <<[id |-> 1, short |-> "s1"], [id |-> 2, short |-> "s1"]>>,
                    undefined),
            Document(1, "a", ROOT_DOC_ID),
            Document(2, "a", ROOT_DOC_ID)>>)

\* the runs explored over the populated store: one id and one partition less
\* than MaxId and MaxParts, one tool call less than MaxCalls per response
PopulatedLimits ==
  [ids |-> MaxId - 1, calls |-> MaxCalls - 1, parts |-> MaxParts - 1]

\* the values maxDocumentSizeChars is configured with over the populated
\* store: those of MaxDocumentSizes and twice the total length of the two
\* Documents of Populated
PopulatedSizes == MaxDocumentSizes \cup {4}

\* a Knowledge over an InMemoryKnowledgeStorage the caller has populated
InitPopulated ==
  /\ storage = Populated
  /\ idCounter = 1
  /\ resolutionStrategy \in Strategies
  /\ pc = "idle"
  /\ op = "none"
  /\ docId = ROOT_DOC_ID
  /\ parentHeading = << >>
  /\ docToUpdate = << >>
  /\ shortUpdateDescription = ""
  /\ result = NoResult
  /\ rnd = NoRound
  /\ issued = {}
  /\ pre = [storage |-> Populated, id |-> 1]
  /\ last = NoneFired
  /\ io = {}
  /\ spy = NoSpy
  /\ caller = NoCaller
  /\ prior = << >>
  /\ hops = NoHops
  /\ procs = NoProcs
  /\ maxDocumentSizeChars \in PopulatedSizes
  /\ limits = PopulatedLimits

\* ROOT is stored from the start: update never takes the bootstrap path
NextPopulated ==
  \/ FindCall
  \/ FindLoop
  \/ UpdateCall
  \/ FindLeafLoop
  \/ SplitCheck
  \/ MergeCheck
  \/ UpdateReturn
  \/ RequestNoChoices
  \/ RequestNoToolCalls
  \/ RequestToolCalls

SpecPopulated == InitPopulated /\ [][NextPopulated]_vars

(* ------------------- find over a tree two Headings deep --------------- *)
(* A caller calls find again and again on a store whose ROOT is a Heading  *)
(* over a Heading and a Document; the routing rounds of each call are      *)
(* counted.                                                                *)

\* the store after ROOT was split into 1 and 2 and then 1 was split into 3
Grown ==
  SetMany(EmptyStorage,
          <<Heading(ROOT_DOC_ID,
                    <<[id |-> 1, short |-> "s1"], [id |-> 2, short |-> "s1"]>>,
                    undefined),
            Heading(1, <<[id |-> 3, short |-> "s1"]>>, ROOT_DOC_ID),
            Document(2, "a", ROOT_DOC_ID),
            Document(3, "a", 1)>>)

\* the Headings on the longest path from node id down to a leaf
RECURSIVE HeadingsOnPath(_, _)
HeadingsOnPath(s, id) ==
  LET node == Get(s, id)
      RECURSIVE Deepest(_)
      Deepest(ids) ==
        IF ids = {} THEN 0
        ELSE LET c == CHOOSE x \in ids : TRUE
                 rest == Deepest(ids \ {c})
                 here == HeadingsOnPath(s, c)
             IN  IF here > rest THEN here ELSE rest
  IN  IF node.kind = "h"
        THEN 1 + Deepest({node.refs[i].id : i \in DOMAIN node.refs})
        ELSE 0

\* the runs explored over the grown store: every id of it within the ids of
\* the run, and up to MaxCalls tool calls per response
FindLimits ==
  {[ids |-> MaxId, calls |-> n, parts |-> MaxParts] : n \in 1 .. MaxCalls}

\* a Knowledge over the grown store
InitFind ==
  /\ storage = Grown
  /\ idCounter = MaxId + 1
  /\ resolutionStrategy \in Strategies
  /\ pc = "idle"
  /\ op = "none"
  /\ docId = ROOT_DOC_ID
  /\ parentHeading = << >>
  /\ docToUpdate = << >>
  /\ shortUpdateDescription = ""
  /\ result = NoResult
  /\ rnd = NoRound
  /\ issued = {}
  /\ pre = [storage |-> Grown, id |-> MaxId + 1]
  /\ last = NoneFired
  /\ io = {}
  /\ spy = NoSpy
  /\ caller = NoCaller
  /\ prior = << >>
  /\ hops = NoHops
  /\ procs = NoProcs
  /\ maxDocumentSizeChars \in MaxDocumentSizes
  /\ limits \in FindLimits

\* a caller calls find(q); no routing round of the call has been issued
WatchedFindCall ==
  /\ FindBegin
  /\ hops' = NoHops
  /\ UNCHANGED <<spy, caller, procs, maxDocumentSizeChars, limits>>

\* one turn of the while loop of find; the turn after a round tells whether
\* selectDocument ran in that round, and a turn that routes issues one more
WatchedFindLoop ==
  /\ FindTurn
  /\ \E routed \in {hops.routed /\ (hops.rounds = 0 \/ rnd.fired > 0)} :
       hops' = [rounds |-> IF routed /\ FindVisit(storage, docId).outcome = "route"
                             THEN hops.rounds + 1
                             ELSE hops.rounds,
                routed |-> routed]
  /\ UNCHANGED <<spy, caller, prior, procs, maxDocumentSizeChars, limits>>

NextFind ==
  \/ WatchedFindCall
  \/ WatchedFindLoop
  \/ RequestNoChoices
  \/ RequestNoToolCalls
  \/ RequestToolCalls

\* find awaits each round and the oracle answers every request: a call that
\* has a step to take takes it
SpecFind == InitFind /\ [][NextFind]_vars /\ WF_vars(NextFind)

(* --------------- calls that interleave on the same store -------------- *)
(* Several callers hold the same Knowledge and call find and update        *)
(* without waiting for one another. A call runs up to its next await and   *)
(* then yields: every store operation and every oracle request is a step   *)
(* of its own, and the steps of the calls interleave. procs holds the       *)
(* locals of each call; storage and idCounter are shared.                  *)

\* the callers
Procs == 1 .. MaxCalls

\* the calls each caller makes
MaxRuns == 1

\* a caller that has not called yet: where its call is, how many calls it
\* has made, the call's locals,
\* its round, and the tool handler it has started and not finished
NoProc ==
  [pc |-> "idle", op |-> "none", runs |-> 0, docId |-> ROOT_DOC_ID,
   parentHeading |-> << >>, docToUpdate |-> << >>,
   shortUpdateDescription |-> "", rnd |-> NoRound, task |-> << >>]

\* a tool handler that has been called with arg: the tool, the docToUpdate
\* and parentHeading its closure captured, the ids generateId has returned
\* to it, the grandParent it has got, and the await it is at
StartedTask(tool, arg, proc) ==
  [tool |-> tool, arg |-> arg,
   doc |-> IF proc.docToUpdate = << >>
             THEN Empty(ROOT_DOC_ID) ELSE proc.docToUpdate[1],
   parent |-> IF proc.parentHeading = << >>
                THEN Empty(ROOT_DOC_ID) ELSE proc.parentHeading[1],
   ids |-> << >>, got |-> << >>, step |-> 1]

\* a split batch that holds the new Heading only
splitBatchHeadingOnly(ids, arg, doc) ==
  <<Heading(doc.id,
            [i \in 1 .. Len(arg) |->
               [id |-> ids[i], short |-> arg[i].shortDescription]],
            doc.parentId)>>

\* the list the split handler passes to setMany once generateId has returned
\* ids: the new documents in the oracle's order, then the new Heading
splitBatch(ids, arg, doc) ==
  LET n == Len(arg)
      newDocRefs ==
        [i \in 1 .. n |-> [id |-> ids[i], short |-> arg[i].shortDescription]]
      newDocs == [i \in 1 .. n |-> Document(ids[i], arg[i].content, doc.id)]
      newHeading == Heading(doc.id, newDocRefs, doc.parentId)
  IN  Append(newDocs, newHeading)

\* the split handler from one await to the next: one generateId per
\* partition, then setMany
splitDocumentStep(h, t) ==
  IF t.step <= Len(t.arg)
    THEN LET g == GenerateId(h.id)
         IN  [h |-> [h EXCEPT !.id = g.next],
              task |-> <<[t EXCEPT !.ids = Append(@, g.id),
                                   !.step = @ + 1]>>]
    ELSE [h |-> [h EXCEPT !.storage =
                            SetMany(@, splitBatch(t.ids, t.arg, t.doc))],
          task |-> << >>]

\* the merge handler from one await to the next: set(newDoc), then
\* get(parentHeading.parentId), then set of the grandParent with new refs
mergeDocumentsStep(h, t) ==
  CASE t.step = 1 ->
         [h |-> [h EXCEPT !.storage =
                            Set(@, Document(t.parent.id, t.arg.content,
                                            t.parent.parentId))],
          task |-> IF Truthy(t.parent.parentId)
                     THEN <<[t EXCEPT !.step = 2]>>
                     ELSE << >>]
    [] t.step = 2 ->
         LET grandParent == Get(h.storage, t.parent.parentId)
         IN  [h |-> h,
              task |-> IF grandParent.kind = "h"
                         THEN <<[t EXCEPT !.got = <<grandParent>>,
                                          !.step = 3]>>
                         ELSE << >>]
    [] t.step = 3 ->
         LET grandParent == t.got[1]
             newRefs ==
               [i \in 1 .. Len(grandParent.refs) |->
                  IF grandParent.refs[i].id = t.parent.id
                    THEN [grandParent.refs[i]
                            EXCEPT !.short = t.arg.shortDescription]
                    ELSE grandParent.refs[i]]
         IN  [h |-> [h EXCEPT !.storage =
                                Set(@, [grandParent EXCEPT !.refs = newRefs])],
              task |-> << >>]

\* a handler from one await to the next, or to its end: what it does to the
\* state its closure can write, and what is left of it
HandlerStep(h, t) ==
  CASE t.tool = "splitDocument" -> splitDocumentStep(h, t)
    [] t.tool = "mergeDocuments" -> mergeDocumentsStep(h, t)
    [] OTHER -> [h |-> Handler(t.tool, h, t.arg, t.doc, t.parent),
                 task |-> << >>]

\* respond returning while the handler it has called is still running
HandlerNotAwaited(task) == TRUE

\* `await handler(...)` in _verifyAndCallHandlers and `await result` in the
\* wrapper of the tool: the round goes on when the handler has finished
HandlerAwaited(task) == task = << >>

\* the variables no interleaved call touches
ConcurrentFrame ==
  UNCHANGED <<resolutionStrategy, pc, op, docId, parentHeading, docToUpdate,
              shortUpdateDescription, result, rnd, issued, pre, last, io,
              spy, caller, prior, hops, maxDocumentSizeChars, limits>>

\* a step of caller p that leaves the store alone
LocalStep(p, proc) ==
  /\ procs' = [procs EXCEPT ![p] = proc]
  /\ UNCHANGED <<storage, idCounter>>
  /\ ConcurrentFrame

\* caller p's call has returned or raised: its locals are gone
Ended(proc, how) ==
  [NoProc EXCEPT !.pc = how, !.op = proc.op, !.runs = proc.runs]

\* caller p begins a call
Began(proc, name) ==
  [NoProc EXCEPT !.op = name, !.runs = proc.runs + 1]

\* caller p's call enters Agent.respond with one tool
Issue(proc, tool, answers, cont) ==
  [proc EXCEPT !.pc = "respond",
               !.rnd = [NoRound EXCEPT !.tool = tool, !.answers = answers,
                                       !.cont = cont, !.status = "request"]]

\* caller p calls find(q)
ConcurrentFindCall(p) ==
  /\ procs[p].pc \in Resting
  /\ procs[p].runs < MaxRuns
  /\ LocalStep(p, [Began(procs[p], "find") EXCEPT !.pc = "find_loop"])

\* one turn of the while loop of p's find: `await get(docId)`
ConcurrentFindLoop(p) ==
  /\ procs[p].pc = "find_loop"
  /\ LET proc == procs[p]
         visit == FindVisit(storage, proc.docId)
     IN  CASE visit.outcome \in {"undefined", "document"} ->
                LocalStep(p, Ended(proc, "done"))
           [] visit.outcome = "route" ->
                LocalStep(p, Issue(proc, "selectDocument",
                                   SelectAnswers(visit.node, idCounter),
                                   "find_loop"))

\* caller p calls update(q): `await get(ROOT_DOC_ID)`
ConcurrentUpdateCall(p) ==
  /\ procs[p].pc \in Resting
  /\ procs[p].runs < MaxRuns
  /\ LET proc == Began(procs[p], "update")
     IN  IF Get(storage, ROOT_DOC_ID).kind = "e"
           THEN LocalStep(p, Issue(proc, "createRoot", {}, "done"))
           ELSE LocalStep(p, [proc EXCEPT !.pc = "findLeaf_loop"])

\* one turn of the while loop of _findLeaf of p's update: `await get(docId)`
ConcurrentFindLeafLoop(p) ==
  /\ procs[p].pc = "findLeaf_loop"
  /\ LET proc == procs[p]
         node == Get(storage, proc.docId)
         visit == FindLeafVisit(node)
     IN  CASE visit = "leaf" ->
                LocalStep(p, Issue([proc EXCEPT !.docToUpdate = <<node>>],
                                   "updateDocument", {}, "split_check"))
           [] visit = "throw" ->
                LocalStep(p, Ended(proc, "raised"))
           [] visit = "route" ->
                LocalStep(p, Issue([proc EXCEPT !.parentHeading = <<node>>],
                                   "selectDocument",
                                   SelectAnswers(node, idCounter),
                                   "findLeaf_loop"))

\* p's update after the edit round: `await get(docToUpdate.id)`
ConcurrentSplitCheck(p) ==
  /\ procs[p].pc = "split_check"
  /\ LET proc == procs[p]
     IN  IF SplitDue(Get(storage, proc.docToUpdate[1].id))
           THEN LocalStep(p, Issue(proc, "splitDocument", {}, "merge_check"))
           ELSE LocalStep(p, [proc EXCEPT !.pc = "merge_check",
                                          !.rnd = NoRound])

\* p's update after the split check: `await getMany(...)`; without a merge
\* the call returns
ConcurrentMergeCheck(p) ==
  /\ procs[p].pc = "merge_check"
  /\ LET proc == procs[p]
     IN  IF /\ proc.parentHeading # << >>
            /\ MergeDue(TotalSize(GetMany(storage,
                                          RefIds(proc.parentHeading[1]))))
           THEN LocalStep(p, Issue(proc, "mergeDocuments", {}, "done"))
           ELSE LocalStep(p, Ended(proc, "done"))

\* the oracle answers p's request with a response that raises a
\* verification error and reaches no handler
ConcurrentOracleInvalid(p) ==
  /\ procs[p].pc = "respond"
  /\ LocalStep(p, [procs[p] EXCEPT !.pc = "verify", !.rnd.errors = TRUE])

\* the oracle answers p's request with one tool call that reaches the
\* handler: the handler is called
ConcurrentOracleValid(p) ==
  /\ procs[p].pc = "respond"
  /\ LET proc == procs[p]
     IN  \E arg \in ValidArgs(proc.rnd.tool, proc.rnd.answers) :
           LocalStep(p, [proc EXCEPT
                           !.pc = "verify",
                           !.rnd.errors = FALSE,
                           !.task = <<StartedTask(proc.rnd.tool, arg, proc)>>])

\* the handler p's round has called runs from one await to the next
ConcurrentHandlerStep(p) ==
  /\ procs[p].task # << >>
  /\ LET proc == procs[p]
         h == [storage |-> storage, id |-> idCounter, docId |-> proc.docId,
               shortUpdateDescription |-> proc.shortUpdateDescription]
     IN  \E step \in {HandlerStep(h, proc.task[1])} :
           /\ WithinIds(step.h)
           /\ storage' = step.h.storage
           /\ idCounter' = step.h.id
           /\ procs' = [procs EXCEPT
                          ![p].docId = step.h.docId,
                          ![p].shortUpdateDescription =
                             step.h.shortUpdateDescription,
                          ![p].task = step.task]
  /\ ConcurrentFrame

\* _verifyAndCallHandlers has returned to p's Agent.respond: the strategy
\* decides whether the round returns, asks again or raises
ConcurrentResolve(p) ==
  /\ procs[p].pc = "verify"
  /\ HandlerAwaited(procs[p].task)
  /\ LET proc == procs[p]
     IN  \E r \in {Resolve(resolutionStrategy, proc.rnd, proc.rnd.errors)} :
           CASE r.status = "returned" /\ r.cont = "done" ->
                  LocalStep(p, Ended(proc, "done"))
             [] r.status = "returned" /\ r.cont # "done" ->
                  LocalStep(p, [proc EXCEPT !.pc = r.cont, !.rnd = NoRound])
             [] r.status = "request" ->
                  LocalStep(p, [proc EXCEPT !.pc = "respond", !.rnd = r])
             [] r.status \in {"raised", "retryOver"} ->
                  LocalStep(p, Ended(proc, "raised"))

\* the store after three updates whose edits were each split into one
\* document: ROOT over Heading 1 over Heading 2 over Document 3
Chain ==
  SetMany(EmptyStorage,
          <<Heading(ROOT_DOC_ID, <<[id |-> 1, short |-> "s1"]>>, undefined),
            Heading(1, <<[id |-> 2, short |-> "s1"]>>, ROOT_DOC_ID),
            Heading(2, <<[id |-> 3, short |-> "s1"]>>, 1),
            Document(3, "a", 2)>>)

\* the runs explored with interleaved calls: the ids of Chain and as many
\* more as a split has partitions, one tool call per response and one
\* partition less than MaxParts
ConcurrentLimits ==
  [ids |-> MaxId + MaxParts - 1, calls |-> MaxCalls - 1,
   parts |-> MaxParts - 1]

\* the strategies of the interleaved calls: one under which a round with
\* errors returns, and one under which it asks again and then raises
ConcurrentStrategies ==
  {[kind |-> "ignore", maxRetries |-> 0],
   [kind |-> "retryAll", maxRetries |-> MaxRetries]}

\* the maxDocumentSizeChars of the interleaved calls: the smaller of
\* MaxDocumentSizes, which the longer content of Texts exceeds
ConcurrentSize ==
  CHOOSE n \in MaxDocumentSizes : \A m \in MaxDocumentSizes : n <= m

\* the stores the interleaved calls begin on, with their id counters: a
\* fresh store, and the store that updates have grown
ConcurrentStarts ==
  {[storage |-> EmptyStorage, id |-> 1], [storage |-> Chain, id |-> MaxId + 1]}

\* a Knowledge that several callers hold
InitConcurrent ==
  /\ pre \in ConcurrentStarts
  /\ storage = pre.storage
  /\ idCounter = pre.id
  /\ resolutionStrategy \in ConcurrentStrategies
  /\ pc = "idle"
  /\ op = "none"
  /\ docId = ROOT_DOC_ID
  /\ parentHeading = << >>
  /\ docToUpdate = << >>
  /\ shortUpdateDescription = ""
  /\ result = NoResult
  /\ rnd = NoRound
  /\ issued = {}
  /\ last = NoneFired
  /\ io = {}
  /\ spy = NoSpy
  /\ caller = NoCaller
  /\ prior = << >>
  /\ hops = NoHops
  /\ procs = [p \in Procs |-> NoProc]
  /\ maxDocumentSizeChars = ConcurrentSize
  /\ limits = ConcurrentLimits

NextConcurrent ==
  \E p \in Procs :
    \/ ConcurrentFindCall(p)
    \/ ConcurrentFindLoop(p)
    \/ ConcurrentUpdateCall(p)
    \/ ConcurrentFindLeafLoop(p)
    \/ ConcurrentSplitCheck(p)
    \/ ConcurrentMergeCheck(p)
    \/ ConcurrentOracleInvalid(p)
    \/ ConcurrentOracleValid(p)
    \/ ConcurrentHandlerStep(p)
    \/ ConcurrentResolve(p)

SpecConcurrent == InitConcurrent /\ [][NextConcurrent]_vars

(* ------------------------------ properties ---------------------------- *)

\* an update call has returned normally
UpdateReturned == pc = "done" /\ op = "update"

\* the handler of tool has run in the current call
Fired(tool) == last[tool] # << >>

\* the argument the handler of tool last ran with
FiredArg(tool) == last[tool][1].arg

\* C1: when the split tool has fired with partitions p1..pn, on return the
\* edited id holds a Heading with the parentId the node had before the call
\* and exactly n refs in the oracle's order; ref i carries pi's short
\* description and names a newly allocated id, under which a Document with
\* exactly pi's content and the edited id as parentId is stored.
SplitResult ==
  (UpdateReturned /\ Fired("splitDocument")) =>
    LET parts == FiredArg("splitDocument")
        edited == docToUpdate[1].id
        heading == Get(storage, edited)
    IN  /\ heading.kind = "h"
        /\ heading.parentId = Get(pre.storage, edited).parentId
        /\ Len(heading.refs) = Len(parts)
        /\ \A i \in 1 .. Len(parts) :
             /\ heading.refs[i].short = parts[i].shortDescription
             /\ heading.refs[i].id \notin DOMAIN pre.storage
             /\ heading.refs[i].id >= last["splitDocument"][1].id
             /\ \A j \in 1 .. Len(parts) :
                  heading.refs[j].id = heading.refs[i].id => j = i
             /\ Get(storage, heading.refs[i].id) =
                  Document(heading.refs[i].id, parts[i].content, edited)

\* C1 witness: an update has returned after a split into two partitions that
\* differ in content and description.
SplitResultWitness ==
  /\ UpdateReturned
  /\ Fired("splitDocument")
  /\ Len(FiredArg("splitDocument")) = 2
  /\ FiredArg("splitDocument")[1] # FiredArg("splitDocument")[2]

\* C2: when the merge tool has fired, on return the parent Heading's id holds
\* a Document with exactly the oracle's merged content and the parentId the
\* parent Heading had.
MergeResult ==
  (UpdateReturned /\ Fired("mergeDocuments")) =>
    LET parent == parentHeading[1]
    IN  /\ Get(pre.storage, parent.id) = parent
        /\ Get(storage, parent.id) =
             Document(parent.id, FiredArg("mergeDocuments").content,
                      parent.parentId)

\* C2 witness: an update has returned after merging the children of a Heading
\* that has a parent itself.
MergeResultWitness ==
  /\ UpdateReturned
  /\ Fired("mergeDocuments")
  /\ parentHeading[1].parentId # undefined
  /\ docToUpdate[1].parentId = parentHeading[1].id

\* C3 (as claimed): when a Merge has collapsed a Heading P that a grandparent
\* Heading G references, ROOT included, then on return G is still a Heading
\* with the same id, its ref to P carries the oracle's new short description
\* and its other refs are as before the call.
MergeUpdatesGrandparent ==
  (UpdateReturned /\ Fired("mergeDocuments")
     /\ parentHeading[1].parentId # undefined) =>
    LET P == parentHeading[1]
        before == Get(pre.storage, P.parentId)
        G == Get(storage, P.parentId)
    IN  (before.kind = "h"
           /\ \E i \in 1 .. Len(before.refs) : before.refs[i].id = P.id) =>
          /\ G.kind = "h"
          /\ G.id = before.id
          /\ Len(G.refs) = Len(before.refs)
          /\ \A i \in 1 .. Len(before.refs) :
               G.refs[i] =
                 IF before.refs[i].id = P.id
                   THEN [id |-> P.id,
                         short |-> FiredArg("mergeDocuments").shortDescription]
                   ELSE before.refs[i]

\* a respond call has just returned normally to find / update
RespondReturned == rnd.status = "returned"

BootstrapStoresRoot ==
  (UpdateReturned /\ Get(pre.storage, ROOT_DOC_ID).kind = "e") =>
    /\ result = Returned("Initialized the knowledge base")
    /\ Get(storage, ROOT_DOC_ID).kind = "d"
    /\ Get(storage, ROOT_DOC_ID).parentId = undefined
    /\ Fired("createRoot")
    /\ Get(storage, ROOT_DOC_ID).content = FiredArg("createRoot").content

\* C6: when the edit tool has fired with (newDocument, shortUpdateDescription),
\* the edit round leaves the located Document under the same id and parentId
\* with content exactly newDocument, and an update that returns, after a split
\* or a merge or neither, returns exactly shortUpdateDescription.
EditResult ==
  (op = "update" /\ Fired("updateDocument")) =>
    LET arg == FiredArg("updateDocument")
        located == docToUpdate[1].id
    IN  /\ Get(pre.storage, ROOT_DOC_ID).kind # "e"
        /\ Get(pre.storage, located).kind = "d"
        /\ pc = "split_check" =>
             Get(storage, located) =
               Document(located, arg.newDocument,
                        Get(pre.storage, located).parentId)
        /\ pc = "done" => result = Returned(arg.shortUpdateDescription)

\* C6 witness: an update has returned after its edit fired and a split
\* followed.
EditResultWitness ==
  /\ UpdateReturned
  /\ Fired("updateDocument")
  /\ Fired("splitDocument")
  /\ result = Returned(FiredArg("updateDocument").shortUpdateDescription)

\* C7: find visits ROOT first and then the ids the oracle selects; a Document
\* it returns is the node stored under the id reached, unchanged.
FindReturnsStored ==
  /\ (pc = "find_loop" /\ issued = {}) => docId = ROOT_DOC_ID
  /\ (pc = "done" /\ op = "find" /\ result.kind = "document") =>
       /\ result.doc[1].kind = "d"
       /\ result.doc[1].id = docId
       /\ result.doc[1] = Get(storage, docId)

\* C7 witness: find has returned a Document that lies two Headings below ROOT.
FindReturnsStoredWitness ==
  /\ pc = "done" /\ op = "find" /\ result.kind = "document"
  /\ result.doc[1].parentId # undefined
  /\ Get(storage, result.doc[1].parentId).kind = "h"
  /\ Get(storage, result.doc[1].parentId).parentId = ROOT_DOC_ID
  /\ result.doc[1].parentId # ROOT_DOC_ID

\* C8: when find's loop comes round with docId = -1, find returns undefined
\* in that step, without a read of the store and without another oracle round.
FindStopsOnMinusOne ==
  [][(pc = "find_loop" /\ docId = 0 - 1) =>
       /\ pc' = "done"
       /\ result' = ReturnedUndefined
       /\ io' = {}
       /\ issued' = issued
       /\ storage' = storage
       /\ idCounter' = idCounter]_vars

\* C8 witness: find has returned undefined on the answer -1 without reading
\* the store in its last step.
FindStopsOnMinusOneWitness ==
  /\ pc = "done" /\ op = "find"
  /\ docId = 0 - 1
  /\ result = ReturnedUndefined
  /\ io = {}

\* C9: when _findLeaf reaches an Empty node, update raises the non-existent
\* document error in that step; whenever update has raised it, storage and id
\* counter are as before the call and no edit, split or merge round was issued.
UpdateRaisesOnEmpty ==
  /\ [](((pc = "raised" /\ result = Raised(NonExistent)) =>
          /\ op = "update"
          /\ storage = pre.storage
          /\ idCounter = pre.id
          /\ issued = {"selectDocument"}))
  /\ [][(pc = "findLeaf_loop" /\ Get(storage, docId).kind = "e") =>
          (pc' = "raised" /\ result' = Raised(NonExistent))]_vars

\* C9 witness: update has raised the error after the oracle selected an id
\* other than -1 that nothing is stored under.
UpdateRaisesOnEmptyWitness ==
  /\ pc = "raised" /\ op = "update"
  /\ result = Raised(NonExistent)
  /\ docId # 0 - 1
  /\ docId \notin DOMAIN storage

\* C10 (as claimed): every stored Heading has at least 2 refs.
HeadingsHaveTwoRefs ==
  \A id \in DOMAIN storage :
    storage[id].kind = "h" => Len(storage[id].refs) >= 2

\* the ids of the refs of a node (none unless it is a Heading)
RefIdSet(node) ==
  IF node.kind = "h"
    THEN {node.refs[i].id : i \in 1 .. Len(node.refs)}
    ELSE {}

\* the ids reached from the ids in frontier along the refs of stored Headings
RECURSIVE Reachable(_, _, _)
Reachable(s, frontier, seen) ==
  IF frontier = {}
    THEN seen
    ELSE LET id == CHOOSE i \in frontier : TRUE
         IN  Reachable(s,
                       (frontier \cup RefIdSet(Get(s, id))) \ (seen \cup {id}),
                       seen \cup {id})

\* C11: between calls, for every Heading h reachable from ROOT and every ref
\* r of h, a node is stored at r.id and its parentId is h.id.
ParentIdsConsistent ==
  pc \in Resting =>
    \A id \in Reachable(storage, {ROOT_DOC_ID}, {}) :
      \A child \in RefIdSet(Get(storage, id)) :
        /\ Get(storage, child).kind # "e"
        /\ Get(storage, child).parentId = id

\* C11 witness: an update has returned after splitting a Document below ROOT,
\* which is now a Heading with refs, reachable from ROOT.
ParentIdsConsistentWitness ==
  /\ UpdateReturned
  /\ Fired("splitDocument")
  /\ docToUpdate[1].id # ROOT_DOC_ID
  /\ docToUpdate[1].id \in Reachable(storage, {ROOT_DOC_ID}, {})
  /\ RefIdSet(Get(storage, docToUpdate[1].id)) # {}

\* C12: every ref of every stored Heading names an id a node is stored under.
NoDanglingRefs ==
  \A id \in DOMAIN storage :
    \A child \in RefIdSet(storage[id]) : Get(storage, child).kind # "e"

\* C12 witness: an update has returned after a merge and the store still
\* holds a Heading with refs.
NoDanglingRefsWitness ==
  /\ UpdateReturned
  /\ Fired("mergeDocuments")
  /\ \E id \in DOMAIN storage : RefIdSet(storage[id]) # {}

\* a direct Agent.respond call is running or has ended
Responding == op = "respond"

\* C13 (as claimed): under retryAll with maxRetries = N the mock client is
\* asked at most N + 1 times in one Agent.respond call, and a call that raises
\* raises the "[Retry over]" error.
RetryAllRequestBound ==
  (Responding /\ resolutionStrategy.kind = "retryAll") =>
    /\ spy.attempts <= resolutionStrategy.maxRetries + 1
    /\ pc = "raised" => result = Raised(RetryOver)

\* a direct Agent.respond call has returned or raised
RespondEnded == Responding /\ pc \in {"done", "raised"}

\* C14 (as claimed): when an Agent.respond call ends in which the oracle
\* invoked the tool, the tool's callback has run exactly once.
CallbackRunsOnce ==
  (RespondEnded /\ spy.named > 0) => rnd.fired = 1

\* C14 (amended): throughout an Agent.respond call the tool's callback has run
\* once for every tool call, in any response of the call, that names the tool
\* with arguments that parse and conform to its schema, and for no other.
CallbackRunsPerValidCall ==
  Responding => rnd.fired = spy.valid

\* C14 witness: under retryAll a call has returned after a re-issued round,
\* the callback run in the failed round and again in the last.
CallbackRunsPerValidCallWitness ==
  /\ RespondEnded
  /\ resolutionStrategy.kind = "retryAll"
  /\ pc = "done"
  /\ spy.attempts = 2
  /\ spy.failed = 1
  /\ rnd.fired >= 2
  /\ spy.named > spy.valid

\* C15: under throw the client is asked at most once in an Agent.respond
\* call, and when its response has no choices, has no tool calls, calls an
\* unknown tool, carries invalid JSON or arguments the schema rejects, or makes
\* the handler throw, the call has raised the error after that one request.
ThrowRaisesAfterOneRequest ==
  (Responding /\ resolutionStrategy.kind = "throw") =>
    /\ spy.attempts <= 1
    /\ (spy.attempts = 1 /\ HasVerificationError("test", spy.response)) =>
         /\ pc = "raised"
         /\ result = Raised(ErrorsDuring)
         /\ rnd.requests = 1

\* C15 witness: under throw a call has raised after one request whose response
\* made the handler throw.
ThrowRaisesAfterOneRequestWitness ==
  /\ Responding
  /\ resolutionStrategy.kind = "throw"
  /\ pc = "raised"
  /\ spy.attempts = 1
  /\ \E i \in 1 .. Len(spy.log) : spy.log[i].threw

\* the tool calls of the mock client's last response whose arguments make the
\* user handler throw
ThrowingCalls ==
  {i \in 1 .. Len(spy.response.toolCalls) :
     /\ ReachesHandler("test", spy.response.toolCalls[i])
     /\ Throws("test", spy.response.toolCalls[i].arguments.value)}

\* C16: under ignore, and with no strategy, an Agent.respond call has returned
\* normally once the client has been asked, it has been asked exactly once,
\* and every tool call whose handler throws had its handler invoked and its
\* error kept as a string.
IgnoreReturnsAfterOneRequest ==
  (Responding /\ resolutionStrategy.kind \in {"none", "ignore"}
     /\ spy.attempts >= 1) =>
    /\ pc = "done"
    /\ rnd.status = "returned"
    /\ result = NoResult
    /\ spy.attempts = 1
    /\ rnd.requests = 1
    /\ \A i \in ThrowingCalls :
         spy.log[i].ran /\ spy.log[i].threw /\ spy.log[i].error
    /\ rnd.fired >= Cardinality(ThrowingCalls)

\* C16 witness: with no strategy a call has returned normally after one
\* request in which the handler was invoked and threw.
IgnoreReturnsAfterOneRequestWitness ==
  /\ Responding
  /\ resolutionStrategy.kind = "none"
  /\ pc = "done"
  /\ spy.attempts = 1
  /\ ThrowingCalls # {}
  /\ rnd.fired >= 1

\* the value the user handler last ran with, according to the mock client's
\* last response: the arguments of its last tool call that reaches the handler
LastReaching ==
  LET reaching == {i \in 1 .. Len(spy.response.toolCalls) :
                     ReachesHandler("test", spy.response.toolCalls[i])}
  IN  IF reaching = {}
        THEN << >>
        ELSE LET top == CHOOSE i \in reaching : \A j \in reaching : j <= i
             IN  <<spy.response.toolCalls[top].arguments.value>>

\* C17: under retryAll, while an Agent.respond call is waiting for a response
\* every response so far has failed verification; once it has returned, only
\* the last response verified without error, so a call whose first response
\* fails and whose second verifies has made exactly 2 requests; and the
\* handler last ran with the arguments of the response that verified.
RetryReturnsOnFirstSuccess ==
  (Responding /\ resolutionStrategy.kind = "retryAll") =>
    /\ pc = "respond" => spy.failed = spy.attempts
    /\ pc = "done" =>
         /\ spy.attempts >= 1
         /\ spy.failed = spy.attempts - 1
         /\ rnd.requests = spy.attempts
         /\ ~HasVerificationError("test", spy.response)
         /\ LastReaching # << >> =>
              (Fired("test") /\ FiredArg("test") = LastReaching[1])

\* C17 witness: with maxRetries >= 1 a call has returned after a first
\* response that failed and a second that verified, the handler run on the
\* second one's arguments.
RetryReturnsOnFirstSuccessWitness ==
  /\ Responding
  /\ resolutionStrategy.kind = "retryAll"
  /\ resolutionStrategy.maxRetries >= 1
  /\ pc = "done"
  /\ spy.attempts = 2
  /\ spy.failed = 1
  /\ Fired("test")
  /\ FiredArg("test") = [test |-> "world"]

\* C18: for every tool call of a response that names the provided tool, the
\* user handler ran only if the arguments parsed and conformed to the schema;
\* on unparsable or non-conforming arguments it did not run and the
\* transformed handler returned an error string; a user handler that threw
\* was turned into an error string; otherwise nothing was returned.
HandlerRunsOnValidArgsOnly ==
  (Responding /\ spy.response.hasToolCalls) =>
    /\ Len(spy.log) = Len(spy.response.toolCalls)
    /\ \A i \in 1 .. Len(spy.log) :
         LET toolCall == spy.response.toolCalls[i]
             outcome == spy.log[i]
         IN  NamesTool("test", toolCall) =>
               /\ outcome.ran =>
                    (toolCall.arguments.wellFormed
                       /\ toolCall.arguments.conforms)
               /\ ~toolCall.arguments.wellFormed =>
                    (~outcome.ran /\ outcome.error)
               /\ (toolCall.arguments.wellFormed
                     /\ ~toolCall.arguments.conforms) =>
                    (~outcome.ran /\ outcome.error)
               /\ i \in ThrowingCalls =>
                    (outcome.ran /\ outcome.threw /\ outcome.error)
               /\ (ReachesHandler("test", toolCall) /\ i \notin ThrowingCalls) =>
                    (outcome.ran /\ ~outcome.threw /\ ~outcome.error)

\* C18 witness: one response has carried a call with invalid JSON and a call
\* that made the handler throw, and the call returned normally (under ignore).
HandlerRunsOnValidArgsOnlyWitness ==
  /\ Responding
  /\ pc = "done"
  /\ ThrowingCalls # {}
  /\ \E i \in 1 .. Len(spy.response.toolCalls) :
       /\ NamesTool("test", spy.response.toolCalls[i])
       /\ ~spy.response.toolCalls[i].arguments.wellFormed

\* C19: update issues a split round in the step of its split check and
\* nowhere else, and there if and only if the node stored under the edited id,
\* a Document, has content longer than maxDocumentSizeChars.
SplitIffTooLong ==
  [][/\ pc = "split_check" =>
          /\ Get(storage, docToUpdate[1].id).kind = "d"
          /\ ("splitDocument" \in issued') <=>
               (Len(Get(storage, docToUpdate[1].id).content)
                  > maxDocumentSizeChars)
     /\ ("splitDocument" \in issued' /\ "splitDocument" \notin issued) =>
          pc = "split_check"]_vars

\* C19 witness: update has passed its split check without a split round on
\* an edited Document exactly as long as maxDocumentSizeChars.
SplitIffTooLongWitness ==
  /\ op = "update"
  /\ pc = "merge_check"
  /\ Fired("updateDocument")
  /\ "splitDocument" \notin issued
  /\ Len(Get(storage, docToUpdate[1].id).content) = maxDocumentSizeChars

\* C20 (as claimed): no stored Heading has more than k refs.
HeadingsHaveAtMostKRefs ==
  \A id \in DOMAIN storage :
    storage[id].kind = "h" => Len(storage[id].refs) <= k

\* a request of a merge round is about to be answered
MergeRound == pc = "respond" /\ rnd.tool = "mergeDocuments"

\* node after differs from node before in nothing but the short description
\* of its ref to id
SameButShort(before, after, id) ==
  /\ after.kind = before.kind
  /\ after.id = before.id
  /\ before.kind = "d" => after = before
  /\ before.kind = "h" =>
       /\ after.parentId = before.parentId
       /\ Len(after.refs) = Len(before.refs)
       /\ \A i \in 1 .. Len(before.refs) :
            /\ after.refs[i].id = before.refs[i].id
            /\ before.refs[i].id # id => after.refs[i] = before.refs[i]

\* C21: a step of a merge round changes nothing in the store but the node
\* under the collapsed Heading's id and the short description of the
\* grandparent's ref to it, and hands out no id: every child of the collapsed
\* Heading stays stored under its id with its kind, content and parentId; and
\* when the update has returned after the merge tool fired, no Heading
\* reachable from ROOT references a former child.
MergeFrame ==
  /\ [][MergeRound =>
          LET P == parentHeading[1]
          IN  /\ idCounter' = idCounter
              /\ \A c \in RefIdSet(P) :
                   /\ Get(storage, c).kind # "e"
                   /\ Get(storage', c) = Get(storage, c)
              /\ \A id \in (DOMAIN storage \cup DOMAIN storage')
                             \ {P.id, P.parentId} :
                   Get(storage', id) = Get(storage, id)
              /\ P.parentId # undefined =>
                   SameButShort(Get(storage, P.parentId),
                                Get(storage', P.parentId), P.id)]_vars
  /\ []((UpdateReturned /\ Fired("mergeDocuments")) =>
          \A c \in RefIdSet(parentHeading[1]) :
            /\ Get(storage, c).kind # "e"
            /\ \A id \in Reachable(storage, {ROOT_DOC_ID}, {}) :
                 c \notin RefIdSet(Get(storage, id)))

\* C21 witness: an update has returned after merging a Heading with two
\* children that has a parent itself; both children are still stored.
MergeFrameWitness ==
  /\ UpdateReturned
  /\ Fired("mergeDocuments")
  /\ Cardinality(RefIdSet(parentHeading[1])) = 2
  /\ parentHeading[1].parentId # undefined
  /\ \A c \in RefIdSet(parentHeading[1]) : Get(storage, c).kind = "d"
  /\ Get(storage, parentHeading[1].id).kind = "d"

\* a request of a split round is about to be answered
SplitRound == pc = "respond" /\ rnd.tool = "splitDocument"

\* C22 (as claimed): every id a step of a split round takes from generateId
\* is, when the step begins, different from ROOT and from every id a node is
\* stored under, also over a store the caller has populated with set; and
\* the step leaves every stored node but the one being split as it was.
SplitIdsFresh ==
  [][SplitRound =>
       /\ \A id \in idCounter .. idCounter' - 1 :
            id # ROOT_DOC_ID /\ id \notin DOMAIN storage
       /\ \A id \in DOMAIN storage \ {docToUpdate[1].id} :
            Get(storage', id) = storage[id]]_vars

\* C23: the ids generateId has returned to a caller of one store are strictly
\* increasing in the order of the calls, so no two of them are equal, whatever
\* set calls, deletions by an Empty node included, come in between.
GeneratedIdsIncrease ==
  \A i \in 1 .. Len(caller.generated) : \A j \in 1 .. Len(caller.generated) :
    i < j => caller.generated[i] < caller.generated[j]

\* C23 witness: generateId has returned three ids, and the node stored under
\* the first of them has been deleted by setting an Empty node.
GeneratedIdsIncreaseWitness ==
  /\ Len(caller.generated) = 3
  /\ caller.generated[1] \in DOMAIN caller.written
  /\ caller.written[caller.generated[1]].kind = "e"
  /\ caller.generated[2] \in DOMAIN storage

\* what get is to return for id: the node last passed to set under id, or an
\* Empty node carrying id when there is none or it was an Empty node
LastSet(id) ==
  IF id \in DOMAIN caller.written /\ caller.written[id].kind # "e"
    THEN caller.written[id]
    ELSE Empty(id)

\* C24: after any sequence of set calls, get(id) returns the node last passed
\* to set under id, and an Empty node carrying id when no node was ever set
\* under id or the last one was an Empty node; a step changes the result of
\* get for no id but the one set was called with.
GetReturnsLastSet ==
  /\ [](\A id \in StoreIds : Get(storage, id) = LastSet(id))
  /\ [](caller.got # << >> =>
          caller.got[1].node = LastSet(caller.got[1].id))
  /\ [][\A id \in StoreIds :
          Get(storage', id) # Get(storage, id) =>
            /\ id \in DOMAIN caller'.written
            /\ Get(caller'.written, id) # Get(caller.written, id)
            /\ \A other \in StoreIds \ {id} :
                 Get(storage', other) = Get(storage, other)]_vars

\* C24 witness: get has returned an Empty node for an id whose last set was
\* an Empty node, while a Document set under another id is still stored.
GetReturnsLastSetWitness ==
  /\ caller.got # << >>
  /\ caller.got[1].node = Empty(caller.got[1].id)
  /\ caller.got[1].id \in DOMAIN caller.written
  /\ \E other \in StoreIds \ {caller.got[1].id} :
       /\ other \in DOMAIN caller.written
       /\ Get(storage, other) = caller.written[other]
       /\ Get(storage, other).kind = "d"

\* find / update has raised the error Agent.respond threw in a round
RaisedByRound == pc = "raised" /\ rnd.status = "raised"

\* the tools of the rounds update issues after a round of tool
LaterRounds(tool) ==
  CASE tool = "selectDocument" ->
         {"updateDocument", "splitDocument", "mergeDocuments"}
    [] tool = "updateDocument" -> {"splitDocument", "mergeDocuments"}
    [] tool = "splitDocument" -> {"mergeDocuments"}
    [] OTHER -> {}

\* C25: a step in which Agent.respond throws is the step in which find /
\* update raises; the call has then raised the error of the strategy (throw:
\* "Errors during agent response", retryAll: the retry-over error), has
\* issued no round that comes after the raising one (after a raising edit
\* round neither a split nor a merge round), and takes no further step: the
\* next step begins a new call and leaves store and id counter alone.
RoundErrorPropagates ==
  /\ [][(pc = "respond" /\ rnd'.status = "raised") => pc' = "raised"]_vars
  /\ [](RaisedByRound =>
          /\ op \in {"find", "update"}
          /\ resolutionStrategy.kind \in {"throw", "retryAll"}
          /\ result = Raised(IF resolutionStrategy.kind = "throw"
                               THEN ErrorsDuring
                               ELSE RetryOver)
          /\ rnd.tool \in issued
          /\ issued \cap LaterRounds(rnd.tool) = {})
  /\ [][RaisedByRound =>
          /\ storage' = storage
          /\ idCounter' = idCounter
          /\ issued' \in {{}, {"createRoot"}}
          /\ result' = NoResult
          /\ pre' = [storage |-> storage, id |-> idCounter]]_vars

\* C25 witness: update has raised the error of its edit round after the edit
\* tool had written to the store.
RoundErrorPropagatesWitness ==
  /\ RaisedByRound
  /\ op = "update"
  /\ rnd.tool = "updateDocument"
  /\ Fired("updateDocument")
  /\ storage # pre.storage

\* C26: when find follows an update that began with a Document at ROOT, whose
\* edit tool fired and which issued no split round, find returns the ROOT
\* Document with exactly the content the oracle passed to that edit, without
\* an oracle round and without a change of the store.
FindAfterRootEdit ==
  (pc = "done" /\ op = "find" /\ prior # << >>
     /\ prior[1].root = "d" /\ prior[1].edit # << >>
     /\ "splitDocument" \notin prior[1].issued) =>
    /\ result =
         ReturnedDocument(Document(ROOT_DOC_ID,
                                   prior[1].edit[1].arg.newDocument, undefined))
    /\ result.doc[1] = Get(storage, ROOT_DOC_ID)
    /\ issued = {}
    /\ storage = pre.storage

\* C26 witness: find has returned the ROOT Document after such an update whose
\* edit stored a content as long as maxDocumentSizeChars.
FindAfterRootEditWitness ==
  /\ pc = "done" /\ op = "find" /\ prior # << >>
  /\ prior[1].root = "d" /\ prior[1].edit # << >>
  /\ "splitDocument" \notin prior[1].issued
  /\ result.kind = "document"
  /\ Len(result.doc[1].content) = maxDocumentSizeChars

\* this step issues an oracle round: find / update calls Agent.respond
RoundIssued == pc # "respond" /\ pc' = "respond"

\* the running or ended call is an update that found ROOT Empty
Bootstrapping == op = "update" /\ Get(pre.storage, ROOT_DOC_ID).kind = "e"

\* C27: an update that found ROOT Empty issues its createRoot round in its
\* first step and no round in any later step, so one round in all and no
\* routing, edit, split or merge round, whatever the length of the content
\* stored; after the round it returns at once.
BootstrapOneRound ==
  /\ [](Bootstrapping =>
          /\ issued = {"createRoot"}
          /\ pc \in {"respond", "bootstrap_return", "done", "raised"}
          /\ pc = "respond" => rnd.tool = "createRoot")
  /\ [][(RoundIssued /\ Bootstrapping') =>
          (pc \in Resting /\ rnd'.tool = "createRoot")]_vars
  /\ [][(pc = "bootstrap_return") =>
          /\ pc' = "done"
          /\ storage' = storage
          /\ idCounter' = idCounter
          /\ result' = Returned("Initialized the knowledge base")]_vars

\* C27 witness: a bootstrapping update has returned after storing a root
\* content longer than maxDocumentSizeChars, its only round the createRoot one.
BootstrapOneRoundWitness ==
  /\ UpdateReturned
  /\ Bootstrapping
  /\ Fired("createRoot")
  /\ Get(storage, ROOT_DOC_ID).kind = "d"
  /\ Len(Get(storage, ROOT_DOC_ID).content) > maxDocumentSizeChars
  /\ issued = {"createRoot"}

\* C28 (as claimed): when a merge round returns to update, every Document
\* that was reachable from ROOT before the step and is not a direct child of
\* the collapsed Heading is reachable from ROOT after it, the partitions of a
\* split earlier in the same update and the Documents below a Heading child
\* of the collapsed Heading included.
MergeKeepsOthersReachable ==
  [][(MergeRound /\ pc' = "update_return") =>
       \A id \in Reachable(storage, {ROOT_DOC_ID}, {}) :
         (Get(storage, id).kind = "d"
            /\ id \notin RefIdSet(parentHeading[1])) =>
           id \in Reachable(storage', {ROOT_DOC_ID}, {})]_vars

\* the round of tool returns normally in this step
RoundReturns(tool) ==
  pc = "respond" /\ rnd.tool = tool /\ rnd'.status = "returned"

\* this step issues a round of tool
Issues(tool) == RoundIssued /\ rnd'.tool = tool

\* C29: in an update that does not bootstrap, every turn of _findLeaf at a
\* Heading issues one routing round and no routing round is issued otherwise;
\* the edit round is issued once, at the Document found, after routing rounds
\* only; a split round is issued at most once, by the split check, straight
\* after the edit round; a merge round is issued at most once, by the merge
\* check. A returning edit round is followed by the split check, the split
\* check (its round, if any, returning) by the merge check, and update
\* returns from the merge check or its round only, whether or not the edit
\* tool fired.
UpdateRoundsInOrder ==
  /\ [][(RoundIssued /\ op' = "update" /\ ~Bootstrapping') =>
          CASE rnd'.tool = "selectDocument" ->
                 /\ pc = "findLeaf_loop" /\ Get(storage, docId).kind = "h"
                 /\ issued \subseteq {"selectDocument"}
            [] rnd'.tool = "updateDocument" ->
                 /\ pc = "findLeaf_loop" /\ Get(storage, docId).kind = "d"
                 /\ issued \subseteq {"selectDocument"}
            [] rnd'.tool = "splitDocument" ->
                 /\ pc = "split_check"
                 /\ issued \ {"selectDocument"} = {"updateDocument"}
            [] rnd'.tool = "mergeDocuments" ->
                 /\ pc = "merge_check"
                 /\ "updateDocument" \in issued
                 /\ "mergeDocuments" \notin issued
            [] OTHER -> FALSE]_vars
  /\ [][(pc = "findLeaf_loop" /\ Get(storage, docId).kind = "h") =>
          Issues("selectDocument")]_vars
  /\ [][(pc = "findLeaf_loop" /\ Get(storage, docId).kind = "d") =>
          Issues("updateDocument")]_vars
  /\ [][RoundReturns("updateDocument") => pc' = "split_check"]_vars
  /\ [][(pc = "split_check") =>
          (pc' = "merge_check" \/ Issues("splitDocument"))]_vars
  /\ [][RoundReturns("splitDocument") => pc' = "merge_check"]_vars
  /\ [][(pc = "merge_check") =>
          (pc' = "update_return" \/ Issues("mergeDocuments"))]_vars
  /\ [][RoundReturns("mergeDocuments") => pc' = "update_return"]_vars
  /\ [][(pc' = "update_return" /\ pc # "update_return") =>
          (pc = "merge_check" \/ RoundReturns("mergeDocuments"))]_vars
  /\ [][(pc # "done" /\ UpdateReturned' /\ ~Bootstrapping') =>
          pc = "update_return"]_vars
  /\ []((UpdateReturned /\ ~Bootstrapping) =>
          /\ "updateDocument" \in issued
          /\ "createRoot" \notin issued
          /\ "selectDocument" \in issued <=> parentHeading # << >>)

\* C29 witness: an update has returned after a routing, an edit, a split and
\* a merge round, its edit tool not having fired.
UpdateRoundsInOrderWitness ==
  /\ UpdateReturned
  /\ issued =
       {"selectDocument", "updateDocument", "splitDocument", "mergeDocuments"}
  /\ ~Fired("updateDocument")
  /\ Fired("splitDocument")
  /\ Fired("mergeDocuments")

\* the total content length of the Documents among the children of update's
\* parentHeading, as the store holds them now
SiblingsSize == TotalSize(GetMany(storage, RefIds(parentHeading[1])))

\* C30: the merge check issues a merge round exactly when update has a
\* parentHeading and twice the total content length of those of its children
\* that are Documents now, after the edit and the split check, is below
\* maxDocumentSizeChars (Headings and Empty nodes add 0); no other step issues
\* a merge round, and an update whose edited Document is ROOT has no
\* parentHeading and issues none.
MergeIffSmall ==
  /\ [][(pc = "merge_check") =>
          (Issues("mergeDocuments") <=>
             (parentHeading # << >>
                /\ 2 * SiblingsSize < maxDocumentSizeChars))]_vars
  /\ [][Issues("mergeDocuments") => pc = "merge_check"]_vars
  /\ []((op = "update" /\ docToUpdate # << >>
           /\ docToUpdate[1].id = ROOT_DOC_ID) =>
          (parentHeading = << >> /\ "mergeDocuments" \notin issued))

\* C30 witness: an update has returned without a merge round from a merge
\* check that found its parentHeading's Documents exactly half
\* maxDocumentSizeChars long in total.
MergeIffSmallWitness ==
  /\ UpdateReturned
  /\ parentHeading # << >>
  /\ 2 * SiblingsSize = maxDocumentSizeChars
  /\ "mergeDocuments" \notin issued

\* C32: from an empty store, in every state the nodes reachable from ROOT
\* form a tree: no reachable Heading has two refs to one id, no id is in the
\* refs of two reachable Headings, ROOT is in no refs, and no reachable
\* Heading is reached from its own refs.
ReachableIsTree ==
  LET R == Reachable(storage, {ROOT_DOC_ID}, {})
  IN  \A id \in R :
        LET node == Get(storage, id)
        IN  node.kind = "h" =>
              /\ \A i \in 1 .. Len(node.refs) : \A j \in 1 .. Len(node.refs) :
                   node.refs[i].id = node.refs[j].id => i = j
              /\ ROOT_DOC_ID \notin RefIdSet(node)
              /\ \A other \in R \ {id} :
                   RefIdSet(node) \cap RefIdSet(Get(storage, other)) = {}
              /\ id \notin Reachable(storage, RefIdSet(node), {})

\* C32 witness: between calls ROOT is a Heading over a Heading that has two
\* refs of its own.
ReachableIsTreeWitness ==
  /\ pc \in Resting
  /\ \E id \in RefIdSet(Get(storage, ROOT_DOC_ID)) :
       Cardinality(RefIdSet(Get(storage, id))) = 2

\* the store after each prefix of the set calls setMany makes on docs, in the
\* order of the list
StoresDuring(s, docs) ==
  [i \in 0 .. Len(docs) |-> SetMany(s, SubSeq(docs, 1, i))]

\* in no store that setMany passes through while the split handler on h
\* writes its batch for arg does the split id hold a Heading one of whose
\* refs does not name a stored Document
BatchKeepsRefsResolved(h, arg, doc) ==
  \A during \in {StoresDuring(h.storage, docsToSet(h, arg, doc))} :
    \A i \in DOMAIN during :
      Get(during[i], doc.id).kind = "h" =>
        \A child \in RefIdSet(Get(during[i], doc.id)) :
          Get(during[i], child).kind = "d"

\* C33: whenever a split round is about to be answered, for every list of
\* partitions the oracle can pass, the handler's batched write goes through
\* no store in which the Heading at the split id has a ref that does not
\* resolve to a stored Document; the same holds for a second run of the
\* handler in the same response.
SplitWritesChildrenFirst ==
  SplitRound =>
    \A arg \in PartitionLists :
      /\ BatchKeepsRefsResolved(HandlerState, arg, docToUpdate[1])
      /\ limits.calls > 1 =>
           \A after \in {splitDocument(HandlerState, arg, docToUpdate[1])} :
             \A again \in PartitionLists :
               BatchKeepsRefsResolved(after, again, docToUpdate[1])

\* C33 witness: a split into two partitions has been persisted and update
\* stands at its merge check: the split id holds a Heading over two stored
\* Documents.
SplitWritesChildrenFirstWitness ==
  /\ pc = "merge_check"
  /\ Fired("splitDocument")
  /\ Len(FiredArg("splitDocument")) = 2
  /\ Get(storage, docToUpdate[1].id).kind = "h"
  /\ Cardinality(RefIdSet(Get(storage, docToUpdate[1].id))) = 2
  /\ \A child \in RefIdSet(Get(storage, docToUpdate[1].id)) :
       Get(storage, child).kind = "d"

\* what becomes of toolCall in a round providing tool, whatever came before
\* it in the response: whether the user handler runs, whether an error is
\* recorded for it, whether the user handler throws
Outcome(tool, toolCall) ==
  [ran |-> ReachesHandler(tool, toolCall),
   error |-> ~ReachesHandler(tool, toolCall)
               \/ Throws(tool, toolCall.arguments.value),
   threw |-> ReachesHandler(tool, toolCall)
               /\ Throws(tool, toolCall.arguments.value)]

\* C34: after a request answered with a list of tool calls, every call of
\* the list has been processed, in the order of the list, each with the
\* outcome it has on its own: a call naming the provided tool has been handed
\* to the tool's handler, whose callback ran when the arguments parse and
\* conform, also after a call of an unknown tool, a call with invalid
\* arguments or a call whose callback threw; and the verification failed
\* exactly when at least one call failed.
EveryToolCallProcessed ==
  (Responding /\ spy.attempts > 0 /\ spy.response.hasToolCalls) =>
    LET calls == spy.response.toolCalls
    IN  /\ Len(spy.log) = Len(calls)
        /\ \A i \in 1 .. Len(calls) : spy.log[i] = Outcome(rnd.tool, calls[i])
        /\ rnd.errors <=> \E i \in 1 .. Len(calls) : spy.log[i].error
        /\ rnd.ncalls = Len(calls)

\* C34 witness: a response of two calls of the provided tool has been
\* processed: the callback threw on the first and ran on the second, and the
\* verification failed.
EveryToolCallProcessedWitness ==
  /\ Responding /\ spy.attempts > 0 /\ spy.response.hasToolCalls
  /\ Len(spy.log) = 2
  /\ spy.log[1].threw
  /\ spy.log[2].ran /\ ~spy.log[2].error
  /\ rnd.errors

\* C35: no step of a find or update call turns a stored id into Empty: the
\* ids with a stored node only grow, so ROOT, once stored, stays stored.
EngineNeverDeletes ==
  [][DOMAIN storage \subseteq DOMAIN storage']_vars

\* C35 witness: an update has returned after a merge and the former children
\* of the collapsed Heading, unreachable from ROOT now, are still stored.
EngineNeverDeletesWitness ==
  /\ UpdateReturned
  /\ Fired("mergeDocuments")
  /\ RefIdSet(parentHeading[1]) # {}
  /\ \A child \in RefIdSet(parentHeading[1]) :
       /\ child \in DOMAIN storage
       /\ child \notin Reachable(storage, {ROOT_DOC_ID}, {})

\* C36: in every state of a find call, running or ended, returned with a
\* Document, returned undefined or raised, the stored nodes and the id
\* counter are what they were when the call began.
FindWritesNothing ==
  op = "find" => (storage = pre.storage /\ idCounter = pre.id)

\* C36 witness: find has raised the error of a routing round whose handler
\* had run, over a store that holds a Heading at ROOT.
FindWritesNothingWitness ==
  /\ op = "find"
  /\ RaisedByRound
  /\ rnd.fired > 0
  /\ Get(storage, ROOT_DOC_ID).kind = "h"


\* a find call is under way
FindRunning == op = "find" /\ pc \notin Resting

\* C31: over a store whose reachable nodes form a finite tree, a find call
\* in whose routing rounds selectDocument has run (with -1 or with an id it
\* was offered) issues at most as many rounds as there are Headings on the
\* longest path from ROOT to a leaf, and the call ends
FindTerminatesWithinPath ==
  /\ [](op = "find" /\ hops.routed
          => hops.rounds <= HeadingsOnPath(storage, ROOT_DOC_ID))
  /\ (FindRunning ~> (pc \in Resting \/ ~hops.routed))

\* a find call has returned the Document under both Headings after one
\* round for each of them
FindTerminatesWithinPathWitness ==
  /\ op = "find" /\ pc = "done"
  /\ hops.routed /\ hops.rounds = 2
  /\ result = ReturnedDocument(Get(storage, 3))


\* caller p's call enters Agent.respond in this step: a round is issued
\* (a retry asks again within the round it belongs to)
RoundIssuedBy(p) ==
  /\ procs[p].pc \notin {"respond", "verify"}
  /\ procs'[p].pc = "respond"

\* C37: within one find or update call a round is issued only when no round
\* of the call is in flight and no tool handler of the call is still
\* running: a handler, its store operations included, runs only while the
\* round that called it is in flight, and has finished when the next round
\* is issued.
OneRoundInFlight ==
  /\ [](\A p \in Procs : procs[p].task # << >> => procs[p].pc = "verify")
  /\ [][\A p \in Procs : RoundIssuedBy(p) => procs[p].task = << >>]_vars

\* a caller's update has issued its merge round after the split of its
\* document was stored, while the handler of another caller is running
OneRoundInFlightWitness ==
  \E p, q \in Procs :
    /\ p # q
    /\ procs[p].op = "update" /\ procs[p].pc = "respond"
    /\ procs[p].rnd.tool = "mergeDocuments"
    /\ Get(storage, procs[p].docToUpdate[1].id).kind = "h"
    /\ procs[q].task # << >> /\ procs[q].task[1].step > 1

\* C38: when update calls on the same store interleave at their awaits, no
\* stored Heading ever holds a ref to an id nothing is stored under, and no
\* id that is stored is ever deleted.
InterleavedRefsResolve ==
  /\ [](\A id \in DOMAIN storage :
          \A child \in RefIdSet(storage[id]) : Get(storage, child).kind # "e")
  /\ [][\A id \in DOMAIN storage : Get(storage', id).kind # "e"]_vars

\* two interleaved updates have both returned: one has split Document 3
\* into a Heading with refs and one has merged Heading 2 into a Document
InterleavedRefsResolveWitness ==
  /\ \A p \in Procs : procs[p].op = "update" /\ procs[p].pc = "done"
  /\ Get(storage, 2).kind = "d"
  /\ Get(storage, 3).kind = "h" /\ RefIdSet(Get(storage, 3)) # {}

====
